---- MODULE Spec2Model ----
(***************************************************************************)
(* Verification model of tou_calculator: the tariff engine (period         *)
(* resolution through the scalar slot scan and through the precomputed     *)
(* lookup table), the billing-period grouper and TariffPlan.calculate_costs *)
(* (usage validation, TOU pricing, tiered pricing with tier doubling).     *)
(*                                                                         *)
(* Floats are modelled as extended numbers [k, v]: k = "fin" with an       *)
(* integer v, or "inf", "ninf", "nan".  Usage is in whole kWh, unit costs  *)
(* in 1/100 per kWh, costs in 1/100; binary rounding is not modelled.      *)
(***************************************************************************)
EXTENDS Integers, Sequences, FiniteSets, TLC

VARIABLES
    profile,      \* TariffProfile: schedules, default_period, season window
    engine,       \* TariffProfile._engine: built flag, _period_types, _lookup_table
    plan,         \* TariffPlan: rates and billing_cycle_type
    usage_kwh,    \* the caller's usage series: a sequence of [ts, kwh]
    op,           \* the operation that ran last
    target,       \* the datetime or DatetimeIndex it was given
    context,      \* the per-timestamp table it computed (context rows, period index)
    result,       \* what it returned or raised
    calls,        \* number of operations run so far
    inputs,       \* the caller's BillingInputs object
    threads,      \* the threads that share the plan: position and local values
    calendar      \* the holiday loader: memory cache, cache files, fetch in progress

vars == <<profile, engine, plan, usage_kwh, op, target, context, result, calls,
          inputs, threads, calendar>>

(***************************************************************************)
(* Bounds of the model.                                                    *)
(***************************************************************************)
MaxSlots == 2        \* slots per DaySchedule
MaxIndexLen == 1     \* timestamps per DatetimeIndex handed to evaluate
MaxCalls == 1        \* operations run on one plan in one behaviour
MaxUsageLen == 2     \* rows of a usage series
MaxModeRows == 5     \* rows of a usage series around a change of season
MaxHistory == 3      \* calculate_costs calls made one after another on one plan

(***************************************************************************)
(* models.py: enums                                                        *)
(***************************************************************************)
SUMMER == "summer"
NON_SUMMER == "non_summer"
PEAK == "peak"
OFF_PEAK == "off_peak"
MONTHLY == "monthly"
ODD_MONTH == "odd_month"
EVEN_MONTH == "even_month"

BillingCycleTypes == {MONTHLY, ODD_MONTH, EVEN_MONTH}

PeriodLabels == {PEAK, OFF_PEAK}

MinutesPerDay == 1440

(***************************************************************************)
(* datetime.time values, compared as Python compares them: field by field. *)
(***************************************************************************)
Time(h, m) == <<h, m>>

TimeLT(a, b) == a[1] < b[1] \/ (a[1] = b[1] /\ a[2] < b[2])

TimeLE(a, b) == a = b \/ TimeLT(a, b)

(***************************************************************************)
(* custom.py _parse_time: "HH:MM" as the pair <<HH, MM>>; "24:00" becomes  *)
(* time(0, 0).                                                             *)
(***************************************************************************)
_parse_time(value) ==
    IF value[1] = 24 /\ value[2] = 0 THEN Time(0, 0) ELSE Time(value[1], value[2])

TimeSlot(start, end, period_type) ==
    [start |-> start, end |-> end, period_type |-> period_type]

\* custom.py _build_slot: a slot declared by "HH:MM" strings
_build_slot(start, end, period) ==
    TimeSlot(_parse_time(start), _parse_time(end), period)

(***************************************************************************)
(* Dates: (year, month, day) with the weekday of the real calendar         *)
(* (Monday = 0 ... Sunday = 6).                                            *)
(***************************************************************************)
\* datetime.date.weekday()
WeekdayOf(y, m, d) ==
    LET t == <<0, 3, 2, 5, 0, 3, 5, 1, 4, 6, 2, 4>>
        yy == IF m < 3 THEN y - 1 ELSE y
        sunday0 == (yy + (yy \div 4) - (yy \div 100) + (yy \div 400) + t[m] + d) % 7
    IN  (sunday0 + 6) % 7

Date(y, m, d) == [year |-> y, month |-> m, day |-> d, weekday |-> WeekdayOf(y, m, d)]

D_2025_07_15 == Date(2025, 7, 15)   \* Tuesday, summer
D_2025_07_20 == Date(2025, 7, 20)   \* Sunday, summer
D_2025_01_18 == Date(2025, 1, 18)   \* Saturday, non-summer
D_2025_01_01 == Date(2025, 1, 1)    \* Wednesday, New Year's Day
D_2025_10_25 == Date(2025, 10, 25)  \* Saturday, Retrocession Day

\* the holiday set the loader returns for a year
load_holidays(year) == IF year = 2025 THEN {D_2025_01_01, D_2025_10_25} ELSE {}

\* calendar.py TaiwanCalendar.is_holiday(date)
is_holiday(d) ==
    IF d.weekday = 6 THEN TRUE ELSE d \in load_holidays(d.year)

\* calendar.py TaiwanCalendar.is_holiday(DatetimeIndex): one flag per date
is_holiday_index(dates) ==
    LET all_holidays == UNION {load_holidays(dates[i].year) : i \in DOMAIN dates}
    IN  [i \in DOMAIN dates |->
            IF all_holidays = {}
            THEN dates[i].weekday = 6
            ELSE dates[i].weekday = 6 \/ dates[i] \in all_holidays]

(***************************************************************************)
(* tariff.py TaiwanSeasonStrategy                                          *)
(***************************************************************************)
MonthDayLE(a, b) == a[1] < b[1] \/ (a[1] = b[1] /\ a[2] <= b[2])

\* the season test with the last day of the window left out
get_season_ExclusiveEnd(start, end, d) ==
    LET current == <<d.month, d.day>>
    IN  IF MonthDayLE(start, end)
        THEN IF MonthDayLE(start, current) /\ MonthDayLE(current, end) /\ current # end
             THEN SUMMER ELSE NON_SUMMER
        ELSE IF MonthDayLE(start, current) \/ (MonthDayLE(current, end) /\ current # end)
             THEN SUMMER ELSE NON_SUMMER

get_season(start, end, d) ==
    LET current == <<d.month, d.day>>
    IN  IF MonthDayLE(start, end)
        THEN IF MonthDayLE(start, current) /\ MonthDayLE(current, end)
             THEN SUMMER ELSE NON_SUMMER
        ELSE IF MonthDayLE(start, current) \/ MonthDayLE(current, end)
             THEN SUMMER ELSE NON_SUMMER

get_all_seasons == <<SUMMER, NON_SUMMER>>

(***************************************************************************)
(* tariff.py TaiwanDayTypeStrategy                                         *)
(***************************************************************************)
\* the day type with the Saturday test made before the holiday test
get_day_type_SaturdayFirst(d) ==
    IF d.weekday = 5 THEN "saturday"
    ELSE IF is_holiday(d) THEN "sunday_holiday"
    ELSE "weekday"

get_day_type(d) ==
    IF is_holiday(d) THEN "sunday_holiday"
    ELSE IF d.weekday = 5 THEN "saturday"
    ELSE "weekday"

get_day_types_batch(dates) ==
    LET is_hol == is_holiday_index(dates)
    IN  [i \in DOMAIN dates |->
            IF is_hol[i] THEN "sunday_holiday"
            ELSE IF dates[i].weekday = 5 THEN "saturday"
            ELSE "weekday"]

get_all_day_types == <<"weekday", "saturday", "sunday_holiday">>

(***************************************************************************)
(* Helpers: position of a label in a list (the dict built by enumerate),   *)
(* -1 for a label that is not in the list (dict.get returning None).       *)
(***************************************************************************)
IndexOf(seq, x) ==
    IF \E i \in DOMAIN seq : seq[i] = x
    THEN (CHOOSE i \in DOMAIN seq : seq[i] = x /\ \A j \in 1..(i - 1) : seq[j] # x) - 1
    ELSE -1

(***************************************************************************)
(* tariff.py _TariffEngine._build_lookup_table                             *)
(***************************************************************************)
\* the schedules of a profile in dict order: a sequence of
\* [season, day_type, slots] entries with distinct (season, day_type)
ScheduleFor(p, season, day_type) ==
    LET hits == {i \in DOMAIN p.schedules :
                    p.schedules[i].season = season /\ p.schedules[i].day_type = day_type}
    IN  IF hits = {} THEN <<>> ELSE <<p.schedules[CHOOSE i \in hits : TRUE].slots>>

\* all slots of all schedules, in iteration order
RECURSIVE AllSlots(_, _)
AllSlots(schedules, i) ==
    IF i > Len(schedules) THEN <<>>
    ELSE schedules[i].slots \o AllSlots(schedules, i + 1)

\* _period_types: the default first, then each unseen period in order
RECURSIVE CollectPeriodTypes(_, _, _)
CollectPeriodTypes(acc, slots, i) ==
    IF i > Len(slots) THEN acc
    ELSE IF \E j \in DOMAIN acc : acc[j] = slots[i].period_type
         THEN CollectPeriodTypes(acc, slots, i + 1)
         ELSE CollectPeriodTypes(Append(acc, slots[i].period_type), slots, i + 1)

period_types_of(p) ==
    CollectPeriodTypes(<<p.default_period>>, AllSlots(p.schedules, 1), 1)

ToMinutes(t) == t[1] * 60 + t[2]

\* The array is np.zeros(shape) followed by slice assignments.  It is kept
\* as the ordered list of those assignments, each one
\* _lookup_table[s_idx, d_idx, lo:hi] = p_idx.
SliceWrite(s_idx, d_idx, lo, hi, p_idx) ==
    [s_idx |-> s_idx, d_idx |-> d_idx, lo |-> lo, hi |-> hi, p_idx |-> p_idx]

PaintSlot(s_idx, d_idx, slot, p_idx) ==
    LET start_min == ToMinutes(slot.start)
        end_min == ToMinutes(slot.end)
    IN  IF start_min < end_min
        THEN <<SliceWrite(s_idx, d_idx, start_min, end_min, p_idx)>>
        ELSE <<SliceWrite(s_idx, d_idx, start_min, MinutesPerDay, p_idx),
               SliceWrite(s_idx, d_idx, 0, end_min, p_idx)>>

RECURSIVE PaintSlots(_, _, _, _, _)
PaintSlots(s_idx, d_idx, slots, i, period_types) ==
    IF i > Len(slots) THEN <<>>
    ELSE PaintSlot(s_idx, d_idx, slots[i], IndexOf(period_types, slots[i].period_type))
         \o PaintSlots(s_idx, d_idx, slots, i + 1, period_types)

RECURSIVE PaintSchedules(_, _, _)
PaintSchedules(schedules, i, period_types) ==
    IF i > Len(schedules) THEN <<>>
    ELSE LET s_idx == IndexOf(get_all_seasons, schedules[i].season)
             d_idx == IndexOf(get_all_day_types, schedules[i].day_type)
         IN  IF s_idx = -1 \/ d_idx = -1
             THEN PaintSchedules(schedules, i + 1, period_types)
             ELSE PaintSlots(s_idx, d_idx, schedules[i].slots, 1, period_types)
                  \o PaintSchedules(schedules, i + 1, period_types)

_build_lookup_table(p) ==
    LET pts == period_types_of(p)
    IN  [built |-> TRUE,
         period_types |-> pts,
         lookup_table |-> PaintSchedules(p.schedules, 1, pts)]

\* _lookup_table[s_idx, d_idx, minute]: the last assignment that covers the
\* cell, 0 (np.zeros) when none does
TableAt(e, s_idx, d_idx, minute) ==
    LET w == e.lookup_table
        hits == {i \in DOMAIN w : /\ w[i].s_idx = s_idx
                                  /\ w[i].d_idx = d_idx
                                  /\ w[i].lo <= minute
                                  /\ minute < w[i].hi}
    IN  IF hits = {} THEN 0
        ELSE w[CHOOSE i \in hits : \A j \in hits : j <= i].p_idx

NoEngine == [built |-> FALSE, period_types |-> <<>>, lookup_table |-> <<>>]

\* values of the variables an operation does not involve
NoInputs == <<>>

NoCalendar == <<>>

\* tariff.py TariffProfile.engine: built on first use, then reused
\* an engine that loses its table once it has been used
EngineOf_ForgetsTable(p, e) ==
    IF e.built THEN [e EXCEPT !.lookup_table = <<>>] ELSE _build_lookup_table(p)

EngineOf(p, e) == IF e.built THEN e ELSE _build_lookup_table(p)

(***************************************************************************)
(* tariff.py _TariffEngine._find_slot_type / get_period_type_scalar        *)
(***************************************************************************)
\* the slot scan with the end of a slot taken as part of the slot
RECURSIVE _find_slot_type_InclusiveEnd(_, _, _, _)
_find_slot_type_InclusiveEnd(t, slots, i, default_period) ==
    IF i > Len(slots) THEN default_period
    ELSE LET slot == slots[i]
         IN  IF TimeLE(slot.start, t) /\ TimeLE(t, slot.end)
             THEN slot.period_type
             ELSE IF TimeLT(slot.end, slot.start)
                     /\ (TimeLE(slot.start, t) \/ TimeLE(t, slot.end))
                  THEN slot.period_type
                  ELSE _find_slot_type_InclusiveEnd(t, slots, i + 1, default_period)

RECURSIVE _find_slot_type(_, _, _, _)
_find_slot_type(t, slots, i, default_period) ==
    IF i > Len(slots) THEN default_period
    ELSE LET slot == slots[i]
         IN  IF TimeLE(slot.start, t) /\ TimeLT(t, slot.end)
             THEN slot.period_type
             ELSE IF TimeLT(slot.end, slot.start)
                     /\ (TimeLE(slot.start, t) \/ TimeLT(t, slot.end))
                  THEN slot.period_type
                  ELSE _find_slot_type(t, slots, i + 1, default_period)

\* scalar resolution that answers PEAK for a day without a schedule
get_period_type_scalar_NoDefault(p, dt) ==
    LET season == get_season(p.summer_start, p.summer_end, dt.date)
        day_type == get_day_type(dt.date)
        schedule == ScheduleFor(p, season, day_type)
    IN  IF schedule = <<>>
        THEN PEAK
        ELSE _find_slot_type(dt.time, schedule[1], 1, p.default_period)

get_period_type_scalar(p, dt) ==
    LET season == get_season(p.summer_start, p.summer_end, dt.date)
        day_type == get_day_type(dt.date)
        schedule == ScheduleFor(p, season, day_type)
    IN  IF schedule = <<>>
        THEN p.default_period
        ELSE _find_slot_type(dt.time, schedule[1], 1, p.default_period)

\* tariff.py get_context(datetime)
get_context_scalar(p, dt) ==
    [season |-> get_season(p.summer_start, p.summer_end, dt.date),
     day_type |-> get_day_type(dt.date),
     period |-> get_period_type_scalar(p, dt)]

(***************************************************************************)
(* tariff.py _TariffEngine.evaluate: one row per timestamp of the index    *)
(***************************************************************************)
evaluate(p, e, index) ==
    LET dates == [i \in DOMAIN index |-> index[i].date]
        season_objs == [i \in DOMAIN index |->
                          get_season(p.summer_start, p.summer_end, dates[i])]
        day_type_objs == get_day_types_batch(dates)
        code(seq, x) == IF IndexOf(seq, x) = -1 THEN 0 ELSE IndexOf(seq, x)
    IN  [i \in DOMAIN index |->
            LET season_code == code(get_all_seasons, season_objs[i])
                day_type_code == code(get_all_day_types, day_type_objs[i])
                minutes == index[i].time[1] * 60 + index[i].time[2]
                period_code == TableAt(e, season_code, day_type_code, minutes)
            IN  [season |-> season_objs[i],
                 day_type |-> day_type_objs[i],
                 period |-> e.period_types[period_code + 1]]]

(***************************************************************************)
(* Inputs of the resolution model                                          *)
(***************************************************************************)
SlotTimes == {<<0, 0>>, <<9, 0>>, <<23, 0>>, <<24, 0>>}

Slots == {_build_slot(s, e, pt) : s \in SlotTimes \ {<<24, 0>>}, e \in SlotTimes,
                                  pt \in PeriodLabels}

SeqsUpTo(S, n) == UNION {[1..k -> S] : k \in 0..n}

QueryDates == {D_2025_07_15, D_2025_07_20, D_2025_01_18}

QueryTimes == {Time(0, 0), Time(8, 59), Time(9, 0), Time(23, 30), Time(23, 59)}

Timestamps == [date : QueryDates, time : QueryTimes]

\* profiles with one configured (season, day type) pair
ResolveProfiles ==
    {[schedules |-> <<[season |-> SUMMER, day_type |-> "weekday", slots |-> sl]>>,
      default_period |-> dp,
      summer_start |-> <<6, 1>>,
      summer_end |-> <<9, 30>>] : sl \in SeqsUpTo(Slots, MaxSlots), dp \in PeriodLabels}

(***************************************************************************)
(* Period resolution: get_period / get_context on a profile                *)
(***************************************************************************)
NoPlan == [rates |-> [period_costs |-> <<>>, tiered_rates |-> <<>>],
           billing_cycle_type |-> MONTHLY]

InitResolve ==
    /\ profile \in ResolveProfiles
    /\ engine = NoEngine
    /\ plan = NoPlan
    /\ usage_kwh = <<>>
    /\ result = <<>>
    /\ op = "none"
    /\ target = <<>>
    /\ context = <<>>
    /\ calls = 0
    /\ inputs = NoInputs
    /\ threads = <<>>
    /\ calendar = NoCalendar

\* tariff.py get_context(datetime, profile)
GetContextScalar(dt) ==
    /\ calls < MaxCalls
    /\ calls' = calls + 1
    /\ engine' = EngineOf(profile, engine)
    /\ op' = "scalar"
    /\ target' = <<dt>>
    /\ context' = <<get_context_scalar(profile, dt)>>
    /\ result' = context'
    /\ UNCHANGED <<profile, plan, usage_kwh>>
    /\ UNCHANGED <<inputs, threads, calendar>>

\* tariff.py get_context(DatetimeIndex, profile) = profile.engine.evaluate
GetContextIndex(index) ==
    /\ calls < MaxCalls
    /\ calls' = calls + 1
    /\ engine' = EngineOf(profile, engine)
    /\ op' = "batch"
    /\ target' = index
    /\ context' = evaluate(profile, engine', index)
    /\ result' = context'
    /\ UNCHANGED <<profile, plan, usage_kwh>>
    /\ UNCHANGED <<inputs, threads, calendar>>

NextResolve ==
    \/ \E dt \in Timestamps : GetContextScalar(dt)
    \/ \E index \in SeqsUpTo(Timestamps, MaxIndexLen) : GetContextIndex(index)

SpecResolve == InitResolve /\ [][NextResolve]_vars

(***************************************************************************)
(* Floats.  A value is finite (an integer), +inf, -inf or NaN; the         *)
(* operators follow IEEE 754 as Python and numpy apply it.                 *)
(***************************************************************************)
Fin(v) == [k |-> "fin", v |-> v]
PosInf == [k |-> "inf", v |-> 0]
NegInf == [k |-> "ninf", v |-> 0]
NaN == [k |-> "nan", v |-> 0]

IsNaN(a) == a.k = "nan"

FSign(a) ==
    IF a.k = "inf" THEN 1
    ELSE IF a.k = "ninf" THEN -1
    ELSE IF a.v > 0 THEN 1 ELSE IF a.v < 0 THEN -1 ELSE 0

FNeg(a) ==
    IF a.k = "fin" THEN Fin(0 - a.v)
    ELSE IF a.k = "inf" THEN NegInf
    ELSE IF a.k = "ninf" THEN PosInf
    ELSE NaN

FAdd(a, b) ==
    IF IsNaN(a) \/ IsNaN(b) THEN NaN
    ELSE IF a.k = "fin" /\ b.k = "fin" THEN Fin(a.v + b.v)
    ELSE IF a.k = "fin" THEN b
    ELSE IF b.k = "fin" THEN a
    ELSE IF a.k = b.k THEN a
    ELSE NaN

FSub(a, b) == FAdd(a, FNeg(b))

FMul(a, b) ==
    IF IsNaN(a) \/ IsNaN(b) THEN NaN
    ELSE IF a.k = "fin" /\ b.k = "fin" THEN Fin(a.v * b.v)
    ELSE IF FSign(a) * FSign(b) = 0 THEN NaN
    ELSE IF FSign(a) * FSign(b) > 0 THEN PosInf
    ELSE NegInf

FLt(a, b) ==
    IF IsNaN(a) \/ IsNaN(b) THEN FALSE
    ELSE IF a.k = "fin" /\ b.k = "fin" THEN a.v < b.v
    ELSE IF a.k = b.k THEN FALSE
    ELSE a.k = "ninf" \/ b.k = "inf"

FEq(a, b) == ~IsNaN(a) /\ ~IsNaN(b) /\ a = b

FLe(a, b) == FLt(a, b) \/ FEq(a, b)

\* Python's min(a, b): b when b < a, else a
PyMin(a, b) == IF FLt(b, a) THEN b ELSE a

\* pandas Series.sum() / groupby().sum(): NaN entries are skipped
RECURSIVE PdSum(_, _)
PdSum(values, i) ==
    IF i > Len(values) THEN Fin(0)
    ELSE IF IsNaN(values[i]) THEN PdSum(values, i + 1)
    ELSE FAdd(values[i], PdSum(values, i + 1))

(***************************************************************************)
(* Timestamps and usage series                                             *)
(***************************************************************************)
Timestamp(d, t) == [date |-> d, time |-> t]

\* position of a timestamp on the time line
TsOrd(ts) ==
    ((((ts.date.year * 12 + ts.date.month) * 31 + ts.date.day) * 24
        + ts.time[1]) * 60) + ts.time[2]

IndexOfSeries(u) == [i \in DOMAIN u |-> u[i].ts]

ValuesOfSeries(u) == [i \in DOMAIN u |-> u[i].kwh]

\* pandas Index.is_monotonic_increasing
is_monotonic_increasing(index) ==
    \A i \in 1..(Len(index) - 1) : TsOrd(index[i]) <= TsOrd(index[i + 1])

(***************************************************************************)
(* tariff.py _billing_period_group_index                                   *)
(***************************************************************************)
DigitChars == <<"0", "1", "2", "3", "4", "5", "6", "7", "8", "9">>

\* f"{int(n)}"
RECURSIVE FormatInt(_)
FormatInt(n) ==
    IF n < 10 THEN <<DigitChars[n + 1]>>
    ELSE Append(FormatInt(n \div 10), DigitChars[(n % 10) + 1])

RECURSIVE ParseInt(_)
ParseInt(str) ==
    IF str = <<>> THEN 0
    ELSE ParseInt(SubSeq(str, 1, Len(str) - 1)) * 10
         + IndexOf(DigitChars, str[Len(str)])

\* the period string f"{int(y)}-{int(g)}"
FormatPeriod(y, g) == FormatInt(y) \o <<"-">> \o FormatInt(g)

\* pd.PeriodIndex([...], freq="M") on a "year-month" string
ParsePeriod(str) ==
    LET dash == CHOOSE i \in DOMAIN str : str[i] = "-"
    IN  <<ParseInt(SubSeq(str, 1, dash - 1)), ParseInt(SubSeq(str, dash + 1, Len(str)))>>

\* index.to_period("M")
to_period_M(ts) == <<ts.date.year, ts.date.month>>

\* GroupKey with December left in its own year under ODD_MONTH
GroupKey_NoYearShift(ts, cycle_type) ==
    LET year == to_period_M(ts)[1]
        month == to_period_M(ts)[2]
    IN  IF cycle_type = MONTHLY
        THEN to_period_M(ts)
        ELSE IF cycle_type = ODD_MONTH
             THEN LET group == IF month = 12 THEN 1 ELSE (month \div 2) * 2 + 1
                  IN  ParsePeriod(FormatPeriod(year, group))
             ELSE ParsePeriod(FormatPeriod(year, ((month + 1) \div 2) * 2))

\* GroupKey with the even group rounded from the floor instead of the ceiling
GroupKey_EvenFloor(ts, cycle_type) ==
    LET year == to_period_M(ts)[1]
        month == to_period_M(ts)[2]
    IN  IF cycle_type = MONTHLY
        THEN to_period_M(ts)
        ELSE IF cycle_type = ODD_MONTH
             THEN LET group == IF month = 12 THEN 1 ELSE (month \div 2) * 2 + 1
                      y == IF month = 12 THEN year + 1 ELSE year
                  IN  ParsePeriod(FormatPeriod(y, group))
             ELSE ParsePeriod(FormatPeriod(year, (month \div 2) * 2))

\* GroupKey with the December year shift applied to both bimonthly cycles
GroupKey_DecShiftAlways(ts, cycle_type) ==
    LET year == to_period_M(ts)[1]
        month == to_period_M(ts)[2]
        y == IF month = 12 THEN year + 1 ELSE year
    IN  IF cycle_type = MONTHLY
        THEN to_period_M(ts)
        ELSE IF cycle_type = ODD_MONTH
             THEN LET group == IF month = 12 THEN 1 ELSE (month \div 2) * 2 + 1
                  IN  ParsePeriod(FormatPeriod(y, group))
             ELSE ParsePeriod(FormatPeriod(y, ((month + 1) \div 2) * 2))

GroupKey(ts, cycle_type) ==
    LET year == to_period_M(ts)[1]
        month == to_period_M(ts)[2]
    IN  IF cycle_type = MONTHLY
        THEN to_period_M(ts)
        ELSE IF cycle_type = ODD_MONTH
             THEN LET dec_mask == month = 12
                      group0 == (month \div 2) * 2 + 1
                      group1 == IF month = 1 THEN 1 ELSE group0
                      group == IF dec_mask THEN 1 ELSE group1
                      y == IF dec_mask THEN year + 1 ELSE year
                  IN  ParsePeriod(FormatPeriod(y, group))
             ELSE LET group == ((month + 1) \div 2) * 2
                  IN  ParsePeriod(FormatPeriod(year, group))

_billing_period_group_index(index, cycle_type) ==
    [i \in DOMAIN index |-> GroupKey(index[i], cycle_type)]

\* series.groupby(keys): the rows of each key, in order
GroupRows(keys, k) == {i \in DOMAIN keys : keys[i] = k}

RECURSIVE SelectValues(_, _, _, _)
SelectValues(values, keys, k, i) ==
    IF i > Len(values) THEN <<>>
    ELSE IF keys[i] = k
         THEN <<values[i]>> \o SelectValues(values, keys, k, i + 1)
         ELSE SelectValues(values, keys, k, i + 1)

\* series.groupby(keys).sum(): one total per key
GroupBySum(values, keys) ==
    [k \in {keys[i] : i \in DOMAIN keys} |-> PdSum(SelectValues(values, keys, k, 1), 1)]

(***************************************************************************)
(* Grouping a validated usage series by billing period                     *)
(* (tariff.py TariffPlan._calculate_tiered_costs, lines 473-475 and 485)   *)
(***************************************************************************)
GroupYears == {2024, 2025}

GroupTimestamps ==
    {Timestamp(Date(y, m, 15), Time(12, 0)) : y \in GroupYears, m \in 1..12}

GroupUsageValues == {Fin(1), Fin(2)}

\* series that pass _validate_usage_series: finite, non-negative, ordered
GroupSeries ==
    {u \in SeqsUpTo([ts : GroupTimestamps, kwh : GroupUsageValues], MaxUsageLen) :
        is_monotonic_increasing(IndexOfSeries(u))}

InitGroup ==
    /\ profile = [schedules |-> <<>>, default_period |-> OFF_PEAK,
                  summer_start |-> <<6, 1>>, summer_end |-> <<9, 30>>]
    /\ engine = NoEngine
    /\ plan \in [rates : {NoPlan.rates}, billing_cycle_type : BillingCycleTypes]
    /\ usage_kwh \in GroupSeries
    /\ op = "none"
    /\ target = <<>>
    /\ context = <<>>
    /\ result = <<>>
    /\ calls = 0
    /\ inputs = NoInputs
    /\ threads = <<>>
    /\ calendar = NoCalendar

GroupUsage ==
    /\ calls < MaxCalls
    /\ calls' = calls + 1
    /\ op' = "group"
    /\ target' = IndexOfSeries(usage_kwh)
    /\ context' = _billing_period_group_index(target', plan.billing_cycle_type)
    /\ result' = GroupBySum(ValuesOfSeries(usage_kwh), context')
    /\ UNCHANGED <<profile, engine, plan, usage_kwh>>
    /\ UNCHANGED <<inputs, threads, calendar>>

NextGroup == GroupUsage

SpecGroup == InitGroup /\ [][NextGroup]_vars

(***************************************************************************)
(* tariff.py _validate_usage_series (the isinstance checks are not         *)
(* modelled: every input is a Series with a DatetimeIndex)                 *)
(***************************************************************************)
\* _validate_usage_series without the test for negative values
_validate_usage_series_NoNegativeCheck(u) ==
    IF \E i \in DOMAIN u : IsNaN(u[i].kwh) THEN "InvalidUsageInput"
    ELSE IF ~is_monotonic_increasing(IndexOfSeries(u)) THEN "InvalidUsageInput"
    ELSE "ok"

_validate_usage_series(u) ==
    IF \E i \in DOMAIN u : IsNaN(u[i].kwh) THEN "InvalidUsageInput"
    ELSE IF \E i \in DOMAIN u : FLt(u[i].kwh, Fin(0)) THEN "InvalidUsageInput"
    ELSE IF ~is_monotonic_increasing(IndexOfSeries(u)) THEN "InvalidUsageInput"
    ELSE "ok"

(***************************************************************************)
(* models.py labels.  A member of SeasonType or PeriodType is the constant *)
(* defined above ("summer" is SeasonType.SUMMER); the Python string that   *)
(* is its value is written with quotes ("'summer'" is the str 'summer').   *)
(* A member and its value are different dictionary keys.                   *)
(***************************************************************************)
EnumMembers == {SUMMER, NON_SUMMER, PEAK, OFF_PEAK}

\* member.value
EnumValue ==
    (SUMMER :> "'summer'") @@ (NON_SUMMER :> "'non_summer'")
    @@ (PEAK :> "'peak'") @@ (OFF_PEAK :> "'off_peak'")

\* models.py _label_value: the value of an enum member, str() of anything else
_label_value(value) == IF value \in EnumMembers THEN EnumValue[value] ELSE value

(***************************************************************************)
(* models.py TariffRate.get_cost: the unit cost under the exact key, else  *)
(* under the key of the two label values, else 0.0                         *)
(***************************************************************************)
get_cost(rates, season, period) ==
    IF <<season, period>> \in DOMAIN rates.period_costs
    THEN rates.period_costs[<<season, period>>]
    ELSE LET season_key == _label_value(season)
             period_key == _label_value(period)
         IN  IF <<season_key, period_key>> \in DOMAIN rates.period_costs
             THEN rates.period_costs[<<season_key, period_key>>]
             ELSE 0

(***************************************************************************)
(* tariff.py TariffPlan.calculate_costs, TOU branch (lines 453-466)        *)
(***************************************************************************)
\* _month_group_index: the index without its time zone (none is modelled)
_month_group_index(index) == index

\* the TOU branch with the interval costs grouped by two-month period
_calculate_tou_costs_BimonthlyGroups(rates, u, ctx) ==
    LET unit_costs == [i \in DOMAIN u |-> get_cost(rates, ctx[i].season, ctx[i].period)]
        interval_costs == [i \in DOMAIN u |-> FMul(u[i].kwh, Fin(unit_costs[i]))]
        month_index == _month_group_index(IndexOfSeries(u))
        months == [i \in DOMAIN u |-> GroupKey(month_index[i], EVEN_MONTH)]
    IN  GroupBySum(interval_costs, months)

_calculate_tou_costs(rates, u, ctx) ==
    LET unit_costs == [i \in DOMAIN u |-> get_cost(rates, ctx[i].season, ctx[i].period)]
        interval_costs == [i \in DOMAIN u |-> FMul(u[i].kwh, Fin(unit_costs[i]))]
        month_index == _month_group_index(IndexOfSeries(u))
        months == [i \in DOMAIN u |-> to_period_M(month_index[i])]
    IN  GroupBySum(interval_costs, months)

(***************************************************************************)
(* tariff.py TariffPlan._calculate_tiered_costs                            *)
(***************************************************************************)
ConsumptionTier(start_kwh, end_kwh, summer_cost, non_summer_cost) ==
    [start_kwh |-> start_kwh, end_kwh |-> end_kwh,
     summer_cost |-> summer_cost, non_summer_cost |-> non_summer_cost]

\* end_kwh of a tier without an upper limit
NoLimitKwh == 999999

\* sorted(tiers, key=start_kwh): stable insertion sort
RECURSIVE InsertTier(_, _)
InsertTier(sorted, tier) ==
    IF sorted = <<>> THEN <<tier>>
    ELSE IF sorted[Len(sorted)].start_kwh <= tier.start_kwh
         THEN Append(sorted, tier)
         ELSE Append(InsertTier(SubSeq(sorted, 1, Len(sorted) - 1), tier),
                     sorted[Len(sorted)])

RECURSIVE SortTiers(_, _)
SortTiers(tiers, n) ==
    IF n = 0 THEN <<>> ELSE InsertTier(SortTiers(tiers, n - 1), tiers[n])

\* tier limits always taken as declared
tier_multiplier_NeverDoubled(cycle_type) == 1

tier_multiplier(cycle_type) == IF cycle_type # MONTHLY THEN 2 ELSE 1

\* the tier loop that puts all remaining usage into the tier at hand
RECURSIVE TierWalk_NoCap(_, _, _, _, _, _, _)
TierWalk_NoCap(tiers, i, remaining_kwh, last_limit_kwh, total_cost, season_label, mult) ==
    IF i > Len(tiers) \/ FLe(remaining_kwh, Fin(0)) THEN total_cost
    ELSE LET tier == tiers[i]
             unit_cost == IF season_label = SUMMER
                          THEN tier.summer_cost ELSE tier.non_summer_cost
         IN  TierWalk_NoCap(tiers, i + 1, FSub(remaining_kwh, remaining_kwh),
                            Fin(tier.end_kwh),
                            FAdd(total_cost, FMul(remaining_kwh, Fin(unit_cost))),
                            season_label, mult)

\* the tier loop with each tier holding one kWh less than its width, so
\* that the kWh that reaches a tier's end is billed in the next tier
RECURSIVE TierWalk_BoundaryToNextTier(_, _, _, _, _, _, _)
TierWalk_BoundaryToNextTier(tiers, i, remaining_kwh, last_limit_kwh, total_cost, season_label, mult) ==
    IF i > Len(tiers) \/ FLe(remaining_kwh, Fin(0)) THEN total_cost
    ELSE LET tier == tiers[i]
             tier_end0 == IF tier.end_kwh < NoLimitKwh THEN Fin(tier.end_kwh) ELSE PosInf
             tier_start == last_limit_kwh
             tier_end == IF mult = 1 THEN tier_end0 ELSE FMul(tier_end0, Fin(mult))
             tier_limit_kwh == FSub(FSub(tier_end, tier_start), Fin(1))
             usage_in_tier_kwh == PyMin(remaining_kwh, tier_limit_kwh)
             unit_cost == IF season_label = SUMMER
                          THEN tier.summer_cost ELSE tier.non_summer_cost
         IN  TierWalk_BoundaryToNextTier(tiers, i + 1,
                      FSub(remaining_kwh, usage_in_tier_kwh), tier_end,
                      FAdd(total_cost, FMul(usage_in_tier_kwh, Fin(unit_cost))),
                      season_label, mult)

\* the loop over sorted_tiers (lines 494-522)
RECURSIVE TierWalk(_, _, _, _, _, _, _)
TierWalk(tiers, i, remaining_kwh, last_limit_kwh, total_cost, season_label, mult) ==
    IF i > Len(tiers) \/ FLe(remaining_kwh, Fin(0)) THEN total_cost
    ELSE LET tier == tiers[i]
             tier_end0 == IF tier.end_kwh < NoLimitKwh THEN Fin(tier.end_kwh) ELSE PosInf
             tier_start == last_limit_kwh
             tier_end == IF mult = 1 THEN tier_end0 ELSE FMul(tier_end0, Fin(mult))
             tier_limit_kwh == FSub(tier_end, tier_start)
             usage_in_tier_kwh == PyMin(remaining_kwh, tier_limit_kwh)
             unit_cost == IF season_label = SUMMER
                          THEN tier.summer_cost ELSE tier.non_summer_cost
         IN  TierWalk(tiers, i + 1, FSub(remaining_kwh, usage_in_tier_kwh), tier_end,
                      FAdd(total_cost, FMul(usage_in_tier_kwh, Fin(unit_cost))),
                      season_label, mult)

\* context.loc[period_usage.index]["season"]: for each row of the group, the
\* season of every row of the context that carries the same timestamp
RECURSIVE LocSeasons(_, _, _, _, _)
LocSeasons(ctx, index, keys, k, i) ==
    IF i > Len(index) THEN <<>>
    ELSE IF keys[i] = k
         THEN LET same == {j \in DOMAIN index : index[j] = index[i]}
              IN  [n \in 1..Cardinality(same) |-> ctx[i].season]
                  \o LocSeasons(ctx, index, keys, k, i + 1)
         ELSE LocSeasons(ctx, index, keys, k, i + 1)

Count(seq, x) == Cardinality({i \in DOMAIN seq : seq[i] = x})

\* Series.mode(): the most frequent values
Modes(seq) ==
    LET values == {seq[i] : i \in DOMAIN seq}
    IN  {v \in values : \A w \in values : Count(seq, w) <= Count(seq, v)}

\* the cost of every billing period, for one choice of a most frequent
\* season in each
_calculate_tiered_costs(rates, cycle_type, u, ctx, pick) ==
    LET index == IndexOfSeries(u)
        keys == _billing_period_group_index(index, cycle_type)
        totals == GroupBySum(ValuesOfSeries(u), keys)
        sorted_tiers == SortTiers(rates.tiered_rates, Len(rates.tiered_rates))
    IN  [k \in DOMAIN totals |->
            IF FEq(totals[k], Fin(0)) THEN Fin(0)
            ELSE TierWalk(sorted_tiers, 1, totals[k], Fin(0), Fin(0), pick[k],
                          tier_multiplier(cycle_type))]

\* the choices period_context["season"].mode().iloc[0] can make
SeasonPicks(cycle_type, u, ctx) ==
    LET index == IndexOfSeries(u)
        keys == _billing_period_group_index(index, cycle_type)
        K == {keys[i] : i \in DOMAIN keys}
    IN  {pick \in [K -> {SUMMER, NON_SUMMER}] :
            \A k \in K : pick[k] \in Modes(LocSeasons(ctx, index, keys, k, 1))}

(***************************************************************************)
(* billing.py _tiered_total_cost                                           *)
(***************************************************************************)
RECURSIVE BillingTierWalk(_, _, _, _, _, _)
BillingTierWalk(tiers, i, remaining_kwh, last_limit_kwh, total_cost, season_label) ==
    IF i > Len(tiers) \/ FLe(remaining_kwh, Fin(0)) THEN total_cost
    ELSE LET tier == tiers[i]
             tier_limit_kwh == IF tier.end_kwh < NoLimitKwh
                               THEN FSub(Fin(tier.end_kwh), last_limit_kwh)
                               ELSE PosInf
             usage_in_tier_kwh == PyMin(remaining_kwh, tier_limit_kwh)
             unit_cost == IF season_label = SUMMER
                          THEN tier.summer_cost ELSE tier.non_summer_cost
         IN  BillingTierWalk(tiers, i + 1, FSub(remaining_kwh, usage_in_tier_kwh),
                             Fin(tier.end_kwh),
                             FAdd(total_cost, FMul(usage_in_tier_kwh, Fin(unit_cost))),
                             season_label)

_tiered_total_cost(total_usage_kwh, season_label, tiers) ==
    IF FEq(total_usage_kwh, Fin(0)) THEN Fin(0)
    ELSE BillingTierWalk(SortTiers(tiers, Len(tiers)), 1, total_usage_kwh,
                         Fin(0), Fin(0), season_label)

(***************************************************************************)
(* Inputs of the cost model: a two-period TOU profile, a TOU rate table    *)
(* and the two-tier schedule 0-120 kWh at 1.78, above at 2.55 (summer) or  *)
(* 2.26 (non-summer); unit costs in 1/100.                                 *)
(***************************************************************************)
TwoPeriodSlots ==
    <<_build_slot(<<0, 0>>, <<9, 0>>, OFF_PEAK), _build_slot(<<9, 0>>, <<24, 0>>, PEAK)>>

CostProfile ==
    [schedules |-> <<[season |-> SUMMER, day_type |-> "weekday", slots |-> TwoPeriodSlots],
                     [season |-> NON_SUMMER, day_type |-> "weekday", slots |-> TwoPeriodSlots]>>,
     default_period |-> OFF_PEAK,
     summer_start |-> <<6, 1>>,
     summer_end |-> <<9, 30>>]

TouPeriodCosts ==
    (<<SUMMER, PEAK>> :> 500) @@ (<<SUMMER, OFF_PEAK>> :> 200)
    @@ (<<NON_SUMMER, PEAK>> :> 480) @@ (<<NON_SUMMER, OFF_PEAK>> :> 190)

Tier1 == ConsumptionTier(0, 120, 178, 178)
Tier2 == ConsumptionTier(120, NoLimitKwh, 255, 226)

TieredRates == {[period_costs |-> <<>>, tiered_rates |-> <<Tier1, Tier2>>],
                [period_costs |-> <<>>, tiered_rates |-> <<Tier2, Tier1>>]}

TouRates == {[period_costs |-> TouPeriodCosts, tiered_rates |-> <<>>]}

CostPlans == [rates : TieredRates \cup TouRates, billing_cycle_type : BillingCycleTypes]

CostTimestamps ==
    {Timestamp(Date(2025, 1, 15), Time(10, 0)),
     Timestamp(Date(2025, 2, 10), Time(10, 0)),
     Timestamp(Date(2025, 7, 15), Time(8, 0)),
     Timestamp(Date(2025, 7, 15), Time(10, 0))}

CostValues == {Fin(0), Fin(120), Fin(200), Fin(250), Fin(300), Fin(-1), NaN, PosInf}

CostSeries == SeqsUpTo([ts : CostTimestamps, kwh : CostValues], MaxUsageLen)

(***************************************************************************)
(* TariffPlan.calculate_costs on a plan and a usage series                 *)
(***************************************************************************)
InitCosts ==
    /\ profile = CostProfile
    /\ engine = NoEngine
    /\ plan \in CostPlans
    /\ usage_kwh \in CostSeries
    /\ op = "none"
    /\ target = <<>>
    /\ context = <<>>
    /\ result = <<>>
    /\ calls = 0
    /\ inputs = NoInputs
    /\ threads = <<>>
    /\ calendar = NoCalendar

Raised(error) == [raised |-> error, costs |-> <<>>]

Returned(costs) == [raised |-> "none", costs |-> costs]

\* tariff.py TariffPlan.calculate_costs (lines 445-466)
CalculateCosts ==
    /\ calls < MaxCalls
    /\ calls' = calls + 1
    /\ op' = "calculate_costs"
    /\ target' = IndexOfSeries(usage_kwh)
    /\ IF _validate_usage_series(usage_kwh) # "ok"
       THEN /\ result' = Raised(_validate_usage_series(usage_kwh))
            /\ context' = <<>>
            /\ UNCHANGED engine
       ELSE /\ engine' = EngineOf(profile, engine)
            /\ context' = evaluate(profile, engine', target')
            /\ IF plan.rates.tiered_rates # <<>>
               THEN \E pick \in SeasonPicks(plan.billing_cycle_type, usage_kwh, context') :
                        result' = Returned(_calculate_tiered_costs(
                                      plan.rates, plan.billing_cycle_type,
                                      usage_kwh, context', pick))
               ELSE result' = Returned(_calculate_tou_costs(plan.rates, usage_kwh, context'))
    /\ UNCHANGED <<profile, plan, usage_kwh>>
    /\ UNCHANGED <<inputs, threads, calendar>>

NextCosts == CalculateCosts

SpecCosts == InitCosts /\ [][NextCosts]_vars

(***************************************************************************)
(* calculate_costs on a tiered plan and a series of readings around the    *)
(* change of season on 1 June: May and June form one EVEN_MONTH period.    *)
(***************************************************************************)
ModeTimestamps ==
    {Timestamp(Date(2025, 5, 20), Time(10, 0)),
     Timestamp(Date(2025, 6, 10), Time(10, 0)),
     Timestamp(Date(2025, 6, 11), Time(10, 0)),
     Timestamp(Date(2025, 6, 12), Time(10, 0))}

ModeValues == {Fin(50), Fin(400)}

\* series with an ascending index; equal timestamps may repeat
ModeSeries ==
    {u \in SeqsUpTo([ts : ModeTimestamps, kwh : ModeValues], MaxModeRows) :
        is_monotonic_increasing(IndexOfSeries(u))}

ModePlans ==
    [rates : {[period_costs |-> <<>>, tiered_rates |-> <<Tier1, Tier2>>]},
     billing_cycle_type : BillingCycleTypes]

InitMode ==
    /\ profile = CostProfile
    /\ engine = NoEngine
    /\ plan \in ModePlans
    /\ usage_kwh \in ModeSeries
    /\ op = "none"
    /\ target = <<>>
    /\ context = <<>>
    /\ result = <<>>
    /\ calls = 0
    /\ inputs = NoInputs
    /\ threads = <<>>
    /\ calendar = NoCalendar

NextMode == CalculateCosts

SpecMode == InitMode /\ [][NextMode]_vars

(***************************************************************************)
(* The strategies of a profile asked directly: get_season, get_day_type    *)
(* and get_day_types_batch, for several summer windows.                    *)
(***************************************************************************)
SummerWindows ==
    {<<(<<6, 1>>), (<<9, 30>>)>>,      \* the Taipower default
     <<(<<5, 16>>), (<<10, 15>>)>>,
     <<(<<11, 1>>), (<<2, 28>>)>>,     \* wraps the end of the year
     <<(<<10, 25>>), (<<1, 1>>)>>,     \* wraps the end of the year
     <<(<<7, 15>>), (<<7, 15>>)>>}     \* a single day

CalendarYears == {2024, 2025}

CalendarMonthDays ==
    {<<1, 1>>, <<1, 2>>, <<1, 18>>, <<2, 28>>, <<3, 1>>, <<5, 15>>, <<5, 16>>,
     <<5, 31>>, <<6, 1>>, <<7, 14>>, <<7, 15>>, <<7, 16>>, <<7, 20>>, <<9, 30>>,
     <<10, 1>>, <<10, 15>>, <<10, 16>>, <<10, 24>>, <<10, 25>>, <<10, 31>>,
     <<11, 1>>, <<12, 31>>}

CalendarDates ==
    {Date(y, md[1], md[2]) : y \in CalendarYears, md \in CalendarMonthDays}
    \cup {Date(2024, 2, 29)}

InitCalendar ==
    /\ profile \in {[schedules |-> <<>>, default_period |-> OFF_PEAK,
                      summer_start |-> w[1], summer_end |-> w[2]] : w \in SummerWindows}
    /\ engine = NoEngine
    /\ plan = NoPlan
    /\ usage_kwh = <<>>
    /\ op = "none"
    /\ target = <<>>
    /\ context = <<>>
    /\ result = <<>>
    /\ calls = 0
    /\ inputs = NoInputs
    /\ threads = <<>>
    /\ calendar = NoCalendar

\* tariff.py TaiwanSeasonStrategy.get_season(target)
GetSeason(d) ==
    /\ calls < MaxCalls
    /\ calls' = calls + 1
    /\ op' = "get_season"
    /\ target' = <<d>>
    /\ result' = get_season(profile.summer_start, profile.summer_end, d)
    /\ UNCHANGED <<profile, engine, plan, usage_kwh, context>>
    /\ UNCHANGED <<inputs, threads, calendar>>

\* tariff.py TaiwanDayTypeStrategy.get_day_type(target)
GetDayType(d) ==
    /\ calls < MaxCalls
    /\ calls' = calls + 1
    /\ op' = "get_day_type"
    /\ target' = <<d>>
    /\ result' = get_day_type(d)
    /\ UNCHANGED <<profile, engine, plan, usage_kwh, context>>
    /\ UNCHANGED <<inputs, threads, calendar>>

\* tariff.py TaiwanDayTypeStrategy.get_day_types_batch(dates)
GetDayTypesBatch(dates) ==
    /\ calls < MaxCalls
    /\ calls' = calls + 1
    /\ op' = "get_day_types_batch"
    /\ target' = dates
    /\ result' = get_day_types_batch(dates)
    /\ UNCHANGED <<profile, engine, plan, usage_kwh, context>>
    /\ UNCHANGED <<inputs, threads, calendar>>

NextCalendar ==
    \/ \E d \in CalendarDates : GetSeason(d)
    \/ \E d \in CalendarDates : GetDayType(d)
    \/ \E dates \in SeqsUpTo(CalendarDates, MaxIndexLen) : GetDayTypesBatch(dates)

SpecCalendar == InitCalendar /\ [][NextCalendar]_vars

(***************************************************************************)
(* TariffRate.get_cost on rate tables whose keys are enum members or       *)
(* strings, asked with enum members or strings.                            *)
(***************************************************************************)
LabelForms == {"enum", "str"}

\* a label as an enum member or as the string of its value
AsForm(member, form) == IF form = "enum" THEN member ELSE EnumValue[member]

SeasonPeriodPairs == {SUMMER, NON_SUMMER} \X {PEAK, OFF_PEAK}

\* the table that holds the given (season, period) pairs, its seasons
\* written in one form and its periods in one form
RateTable(pairs, season_form, period_form) ==
    LET KeyOf(pr) == <<AsForm(pr[1], season_form), AsForm(pr[2], period_form)>>
    IN  [key \in {KeyOf(pr) : pr \in pairs} |->
            TouPeriodCosts[CHOOSE pr \in pairs : KeyOf(pr) = key]]

RateTables ==
    {RateTable(pairs, sf, pf) :
        pairs \in (SUBSET SeasonPeriodPairs) \ {{}}, sf \in LabelForms, pf \in LabelForms}

QueryLabels(members) == {AsForm(m, f) : m \in members, f \in LabelForms}

InitRates ==
    /\ profile = CostProfile
    /\ engine = NoEngine
    /\ plan \in [rates : {[period_costs |-> pc, tiered_rates |-> <<>>] : pc \in RateTables},
                  billing_cycle_type : {MONTHLY}]
    /\ usage_kwh = <<>>
    /\ op = "none"
    /\ target = <<>>
    /\ context = <<>>
    /\ result = <<>>
    /\ calls = 0
    /\ inputs = NoInputs
    /\ threads = <<>>
    /\ calendar = NoCalendar

\* models.py TariffRate.get_cost(season, period)
GetCost(season, period) ==
    /\ calls < MaxCalls
    /\ calls' = calls + 1
    /\ op' = "get_cost"
    /\ target' = <<season, period>>
    /\ result' = get_cost(plan.rates, season, period)
    /\ UNCHANGED <<profile, engine, plan, usage_kwh, context>>
    /\ UNCHANGED <<inputs, threads, calendar>>

NextRates ==
    \E season \in QueryLabels({SUMMER, NON_SUMMER}), period \in QueryLabels({PEAK, OFF_PEAK}) :
        GetCost(season, period)

SpecRates == InitRates /\ [][NextRates]_vars

(***************************************************************************)
(* tariff.py TariffPlan.pricing_context (lines 361-443)                    *)
(***************************************************************************)
\* Python's None where a float is expected
NoneValue == [k |-> "none", v |-> 0]

\* the dict or DataFrame returned: one row per timestamp, wrapped with the
\* descriptions of the plan when include_details is set
PricingResult(rows, include_details) ==
    [raised |-> "none", context |-> rows, details |-> include_details]

\* pricing_context of a datetime that never rejects a usage amount
pricing_context_scalar_NoTieredGuard(p, rates, dt, usage, include_details) ==
    LET ctx == get_context_scalar(p, dt)
        tiered == rates.tiered_rates # <<>>
        unit_cost == IF tiered THEN NoneValue
                     ELSE Fin(get_cost(rates, ctx.season, ctx.period))
        cost == IF ~tiered /\ usage # NoneValue THEN FMul(usage, unit_cost)
                ELSE NoneValue
    IN  PricingResult(<<[season |-> _label_value(ctx.season),
                         period |-> _label_value(ctx.period),
                         rate |-> unit_cost,
                         cost |-> cost]>>, include_details)

\* pricing_context(target: datetime, usage_kwh: float | None)
pricing_context_scalar(p, rates, dt, usage, include_details) ==
    IF usage # NoneValue /\ rates.tiered_rates # <<>>
    THEN Raised("InvalidUsageInput")
    ELSE LET ctx == get_context_scalar(p, dt)
             tiered == rates.tiered_rates # <<>>
             unit_cost == IF tiered THEN NoneValue
                          ELSE Fin(get_cost(rates, ctx.season, ctx.period))
             cost == IF ~tiered /\ usage # NoneValue THEN FMul(usage, unit_cost)
                     ELSE NoneValue
         IN  PricingResult(<<[season |-> _label_value(ctx.season),
                              period |-> _label_value(ctx.period),
                              rate |-> unit_cost,
                              cost |-> cost]>>, include_details)

\* pricing_context(target: DatetimeIndex, usage_kwh: Series | None); usage
\* is <<>> for None, else the values of a series on the same index
pricing_context_index(p, e, rates, index, usage, include_details) ==
    IF usage # <<>> /\ rates.tiered_rates # <<>>
    THEN Raised("InvalidUsageInput")
    ELSE LET context_df == evaluate(p, e, index)
             tiered == rates.tiered_rates # <<>>
             rate_series == [i \in DOMAIN index |->
                                IF tiered THEN NoneValue
                                ELSE Fin(get_cost(rates, context_df[i].season,
                                                  context_df[i].period))]
             cost_series == [i \in DOMAIN index |->
                                IF tiered \/ usage = <<>> THEN NoneValue
                                ELSE FMul(usage[i], rate_series[i])]
         IN  PricingResult([i \in DOMAIN index |->
                               [season |-> _label_value(context_df[i].season),
                                period |-> _label_value(context_df[i].period),
                                rate |-> rate_series[i],
                                cost |-> cost_series[i]]], include_details)

PricingUsage == {Fin(100), Fin(250)}

InitPricing ==
    /\ profile = CostProfile
    /\ engine = NoEngine
    /\ plan \in CostPlans
    /\ usage_kwh = <<>>
    /\ op = "none"
    /\ target = <<>>
    /\ context = <<>>
    /\ result = <<>>
    /\ calls = 0
    /\ inputs = NoInputs
    /\ threads = <<>>
    /\ calendar = NoCalendar

\* plan.pricing_context(dt, usage): usage_kwh records the usage argument,
\* <<>> when it is None
PricingContextScalar(dt, usage, include_details) ==
    /\ calls < MaxCalls
    /\ calls' = calls + 1
    /\ op' = "pricing_context_scalar"
    /\ target' = <<dt>>
    /\ usage_kwh' = IF usage = NoneValue THEN <<>> ELSE <<[ts |-> dt, kwh |-> usage]>>
    /\ result' = pricing_context_scalar(profile, plan.rates, dt, usage, include_details)
    /\ IF result'.raised = "none"
       THEN /\ engine' = EngineOf(profile, engine)
            /\ context' = <<get_context_scalar(profile, dt)>>
       ELSE /\ context' = <<>>
            /\ UNCHANGED engine
    /\ UNCHANGED <<profile, plan>>
    /\ UNCHANGED <<inputs, threads, calendar>>

\* plan.pricing_context(index, usage) on a DatetimeIndex with at least one
\* timestamp
PricingContextIndex(index, usage, include_details) ==
    /\ calls < MaxCalls
    /\ calls' = calls + 1
    /\ op' = "pricing_context_index"
    /\ target' = index
    /\ usage_kwh' = [i \in DOMAIN usage |-> [ts |-> index[i], kwh |-> usage[i]]]
    /\ result' = pricing_context_index(profile, EngineOf(profile, engine), plan.rates,
                                       index, usage, include_details)
    /\ IF result'.raised = "none"
       THEN /\ engine' = EngineOf(profile, engine)
            /\ context' = evaluate(profile, engine', index)
       ELSE /\ context' = <<>>
            /\ UNCHANGED engine
    /\ UNCHANGED <<profile, plan>>
    /\ UNCHANGED <<inputs, threads, calendar>>

NextPricing ==
    \/ \E dt \in CostTimestamps, usage \in PricingUsage \cup {NoneValue},
          include_details \in BOOLEAN :
            PricingContextScalar(dt, usage, include_details)
    \/ \E index \in SeqsUpTo(CostTimestamps, MaxIndexLen) \ {<<>>},
          include_details \in BOOLEAN :
            \E usage \in {<<>>} \cup [DOMAIN index -> PricingUsage] :
                PricingContextIndex(index, usage, include_details)

SpecPricing == InitPricing /\ [][NextPricing]_vars

(***************************************************************************)
(* A plan used for several calculate_costs calls in a row, each with a     *)
(* series of the caller's choice (accepted or rejected).                   *)
(***************************************************************************)
HistoryTimestamps ==
    {Timestamp(Date(2025, 1, 15), Time(10, 0)),
     Timestamp(Date(2025, 7, 15), Time(10, 0))}

HistoryValues == {Fin(200), Fin(300), NaN}

HistorySeries == SeqsUpTo([ts : HistoryTimestamps, kwh : HistoryValues], MaxUsageLen)

HistoryPlans ==
    {[rates |-> [period_costs |-> TouPeriodCosts, tiered_rates |-> <<>>],
      billing_cycle_type |-> MONTHLY],
     [rates |-> [period_costs |-> <<>>, tiered_rates |-> <<Tier1, Tier2>>],
      billing_cycle_type |-> MONTHLY],
     [rates |-> [period_costs |-> <<>>, tiered_rates |-> <<Tier1, Tier2>>],
      billing_cycle_type |-> EVEN_MONTH]}

InitHistory ==
    /\ profile = CostProfile
    /\ engine = NoEngine
    /\ plan \in HistoryPlans
    /\ usage_kwh = <<>>
    /\ op = "none"
    /\ target = <<>>
    /\ context = <<>>
    /\ result = <<>>
    /\ calls = 0
    /\ inputs = NoInputs
    /\ threads = <<>>
    /\ calendar = NoCalendar

\* plan.calculate_costs(u) on a plan that may have been used before
CalculateCostsOn(u) ==
    /\ calls < MaxHistory
    /\ calls' = calls + 1
    /\ op' = "calculate_costs"
    /\ usage_kwh' = u
    /\ target' = IndexOfSeries(u)
    /\ IF _validate_usage_series(u) # "ok"
       THEN /\ result' = Raised(_validate_usage_series(u))
            /\ context' = <<>>
            /\ UNCHANGED engine
       ELSE /\ engine' = EngineOf(profile, engine)
            /\ context' = evaluate(profile, engine', target')
            /\ IF plan.rates.tiered_rates # <<>>
               THEN \E pick \in SeasonPicks(plan.billing_cycle_type, u, context') :
                        result' = Returned(_calculate_tiered_costs(
                                      plan.rates, plan.billing_cycle_type,
                                      u, context', pick))
               ELSE result' = Returned(_calculate_tou_costs(plan.rates, u, context'))
    /\ UNCHANGED <<profile, plan>>
    /\ UNCHANGED <<inputs, threads, calendar>>

NextHistory == \E u \in HistorySeries : CalculateCostsOn(u)

SpecHistory == InitHistory /\ [][NextHistory]_vars

(***************************************************************************)
(* billing.py: the bill of a plan.  Plan data and the rule definitions of  *)
(* the plan store are inputs of the model; the plans have no basic fee, no *)
(* surcharge, no adjustment and no minimum fee, so that a bill is its      *)
(* energy_cost column.  None is NoneValue, an int n is IntValue(n).        *)
(***************************************************************************)
IntValue(n) == [k |-> "int", v |-> n]

\* bool(x) of None or an int
Truthy(x) == x # NoneValue /\ x.v # 0

\* billing.py BillingInputs: the fields calculate_bill reads for these plans
BillingInputs(meter_phase, meter_voltage_v, meter_ampere, billing_cycle_months) ==
    [meter_phase |-> meter_phase, meter_voltage_v |-> meter_voltage_v,
     meter_ampere |-> meter_ampere, billing_cycle_months |-> billing_cycle_months]

\* billing.py _billing_period_index: the month of each timestamp, or the
\* first month of the group of cycle_months months counted from the
\* earliest month of the index
_billing_period_index(index, cycle_months) ==
    IF ~Truthy(cycle_months) \/ cycle_months.v <= 1 \/ index = <<>>
    THEN [i \in DOMAIN index |-> to_period_M(index[i])]
    ELSE LET first == index[CHOOSE i \in DOMAIN index :
                               \A j \in DOMAIN index : TsOrd(index[i]) <= TsOrd(index[j])]
             start_year == first.date.year
             start_month == first.date.month
         IN  [i \in DOMAIN index |->
                LET months_since == (index[i].date.year - start_year) * 12
                                    + (index[i].date.month - start_month)
                    group == months_since \div cycle_months.v
                    month0 == start_year * 12 + (start_month - 1)
                              + group * cycle_months.v
                IN  <<month0 \div 12, (month0 % 12) + 1>>]

\* the first rule of the rule set for the meter's phase and voltage, 0 if none
RECURSIVE MatchingRule(_, _, _)
MatchingRule(ruleset, bill_inputs, i) ==
    IF i > Len(ruleset) THEN 0
    ELSE IF ruleset[i].phase # bill_inputs.meter_phase THEN MatchingRule(ruleset, bill_inputs, i + 1)
    ELSE IF ruleset[i].voltage_v # bill_inputs.meter_voltage_v.v
         THEN MatchingRule(ruleset, bill_inputs, i + 1)
    ELSE i

\* min_kwh of the matching rule
MinKwh(rule, bill_inputs) ==
    LET ampere == bill_inputs.meter_ampere.v
    IN  IF rule.ampere_threshold # NoneValue
        THEN IF ampere <= rule.ampere_threshold.v
             THEN ampere * rule.kwh_per_ampere
             ELSE ampere * rule.kwh_per_ampere_over
        ELSE ampere * rule.kwh_per_ampere

\* group * float(required / total); the usage of the model divides evenly
ScaleUsage(value, required, total) ==
    IF value.k = "fin" /\ total.k = "fin"
    THEN Fin((value.v * required) \div total.v)
    ELSE FMul(value, Fin(1))

\* the loop over the billing periods (lines 1112-1123): the rows written
FloorRows(u, keys, required) ==
    [i \in DOMAIN u |->
        LET rows == GroupRows(keys, keys[i])
            total == PdSum(SelectValues(ValuesOfSeries(u), keys, keys[i], 1), 1)
            first == CHOOSE r \in rows : \A s \in rows : r <= s
        IN  IF FLe(Fin(required), total) THEN u[i]
            ELSE IF FLt(Fin(0), total)
                 THEN [u[i] EXCEPT !.kwh = ScaleUsage(u[i].kwh, required, total)]
            ELSE IF u[i].ts = u[first].ts
                 THEN [u[i] EXCEPT !.kwh = Fin(required)]
            ELSE u[i]]

\* the minimum usage a plan and a meter ask for, 0 when no floor applies
FloorKwh(plan_data, definitions, bill_inputs) ==
    LET ref == plan_data.billing_rules.minimum_usage_rules_ref
    IN  IF ref = "None" THEN 0
        ELSE IF bill_inputs.meter_phase = "None"
                \/ bill_inputs.meter_voltage_v = NoneValue
                \/ bill_inputs.meter_ampere = NoneValue THEN 0
        ELSE IF ref \notin DOMAIN definitions.minimum_usage_rules THEN 0
        ELSE LET ruleset == definitions.minimum_usage_rules[ref]
                 at == MatchingRule(ruleset, bill_inputs, 1)
             IN  IF at = 0 THEN 0
                 ELSE IF MinKwh(ruleset[at], bill_inputs) <= 0 THEN 0
                 ELSE MinKwh(ruleset[at], bill_inputs)

\* _apply_minimum_usage writing the raised values into the caller's series
_apply_minimum_usage_InPlace(plan_data, definitions, u, bill_inputs) ==
    LET min_kwh == FloorKwh(plan_data, definitions, bill_inputs)
        billing_periods == _billing_period_index(IndexOfSeries(u), bill_inputs.billing_cycle_months)
        cycle_months == IF Truthy(bill_inputs.billing_cycle_months) THEN bill_inputs.billing_cycle_months.v ELSE 1
        adjusted == FloorRows(u, billing_periods, min_kwh * cycle_months)
    IN  IF min_kwh = 0 THEN [usage |-> u, returned |-> u] ELSE [usage |-> adjusted, returned |-> adjusted]

\* billing.py _apply_minimum_usage: the caller's series after the call and
\* the series returned, which is the caller's own when no floor applies and
\* the copy made at line 1110 otherwise
_apply_minimum_usage(plan_data, definitions, u, bill_inputs) ==
    LET min_kwh == FloorKwh(plan_data, definitions, bill_inputs)
        billing_periods == _billing_period_index(IndexOfSeries(u), bill_inputs.billing_cycle_months)
        cycle_months == IF Truthy(bill_inputs.billing_cycle_months) THEN bill_inputs.billing_cycle_months.v ELSE 1
        adjusted == FloorRows(u, billing_periods, min_kwh * cycle_months)
    IN  IF min_kwh = 0 THEN [usage |-> u, returned |-> u] ELSE [usage |-> u, returned |-> adjusted]

\* factory.py _normalize_tiers
_normalize_tiers(tiers, billing_cycle_months) ==
    [i \in DOMAIN tiers |->
        LET start_kwh == tiers[i].min
            end_kwh == IF tiers[i].max = NoneValue THEN NoLimitKwh ELSE tiers[i].max.v
            scaled == Truthy(billing_cycle_months) /\ billing_cycle_months.v > 1
        IN  ConsumptionTier(
                IF scaled THEN start_kwh * billing_cycle_months.v ELSE start_kwh,
                IF scaled /\ end_kwh < NoLimitKwh
                THEN end_kwh * billing_cycle_months.v ELSE end_kwh,
                tiers[i].summer, tiers[i].non_summer)]

\* the profile factory.py builds for plan data without schedules
\* (lines 238-254), with the default season strategy (line 171)
BillProfile ==
    [schedules |-> <<[season |-> SUMMER, day_type |-> "weekday",
                      slots |-> <<_build_slot(<<0, 0>>, <<24, 0>>, OFF_PEAK)>>]>>,
     default_period |-> OFF_PEAK,
     summer_start |-> <<6, 1>>,
     summer_end |-> <<9, 30>>]

\* the engine of that profile, built on the first evaluate of each call
BillEngine == _build_lookup_table(BillProfile)

\* factory.py _build_tariff_plan_from_data: the rates of the plan built
_build_tariff_plan_from_data(plan_data, billing_cycle_months) ==
    [period_costs |-> plan_data.rates,
     tiered_rates |-> _normalize_tiers(plan_data.tiers, billing_cycle_months)]

\* the choices context_df.loc[group.index, "season"].mode().iloc[0] can make
BillSeasonPicks(index, keys, ctx) ==
    LET K == {keys[i] : i \in DOMAIN keys}
    IN  {pick \in [K -> {SUMMER, NON_SUMMER}] :
            \A k \in K : pick[k] \in Modes(LocSeasons(ctx, index, keys, k, 1))}

\* billing.py _calculate_energy_costs, for one choice of a most frequent
\* season in each billing period
_calculate_energy_costs(u, ctx, billing_periods, rates, pick) ==
    IF rates.tiered_rates # <<>>
    THEN LET totals == GroupBySum(ValuesOfSeries(u), billing_periods)
         IN  [k \in DOMAIN totals |->
                IF FEq(totals[k], Fin(0)) THEN Fin(0)
                ELSE _tiered_total_cost(totals[k], pick[k], rates.tiered_rates)]
    ELSE LET unit_costs == [i \in DOMAIN u |->
                               get_cost(rates, ctx[i].season, ctx[i].period)]
             interval_costs == [i \in DOMAIN u |-> FMul(u[i].kwh, Fin(unit_costs[i]))]
         IN  GroupBySum(interval_costs, billing_periods)

\* the body shared by calculate_bill (lines 351-386) and
\* calculate_bill_breakdown (lines 455-491): the caller's objects after the
\* call and the values computed on the way
BillSteps(u, plan_data, definitions, bill_inputs) ==
    LET inputs1 == IF bill_inputs.billing_cycle_months = NoneValue
                   THEN [bill_inputs EXCEPT !.billing_cycle_months =
                             plan_data.billing_rules.billing_cycle_months]
                   ELSE bill_inputs
        floor == _apply_minimum_usage(plan_data, definitions, u, inputs1)
        usage_for_billing == floor.returned
        index == IndexOfSeries(usage_for_billing)
        billing_periods == _billing_period_index(index, inputs1.billing_cycle_months)
        rates == _build_tariff_plan_from_data(plan_data, inputs1.billing_cycle_months)
        ctx == evaluate(BillProfile, BillEngine, index)
    IN  [inputs |-> inputs1,
         usage |-> floor.usage,
         usage_for_billing |-> usage_for_billing,
         billing_periods |-> billing_periods,
         rates |-> rates,
         context |-> ctx]

(***************************************************************************)
(* Inputs of the bill model: the two-tier schedule of the cost model as    *)
(* plan data, billed monthly or in periods of two months, with or without  *)
(* a minimum-usage rule, and a TOU plan billed monthly; a caller's         *)
(* BillingInputs with or without a meter and a billing cycle.              *)
(***************************************************************************)
MaxBills == 2

BillTiers ==
    <<[min |-> 0, max |-> IntValue(120), summer |-> 178, non_summer |-> 178],
      [min |-> 120, max |-> NoneValue, summer |-> 255, non_summer |-> 226]>>

BillRates == (<<SUMMER, OFF_PEAK>> :> 200) @@ (<<NON_SUMMER, OFF_PEAK>> :> 190)

PlanData(id, tiers, rates, billing_cycle_months, minimum_usage_rules_ref) ==
    [id |-> id, tiers |-> tiers, rates |-> rates,
     billing_rules |-> [billing_cycle_months |-> billing_cycle_months,
                        minimum_usage_rules_ref |-> minimum_usage_rules_ref]]

BillPlans ==
    {PlanData("tiered_monthly", BillTiers, <<>>, NoneValue, "None"),
     PlanData("tiered_monthly_floor", BillTiers, <<>>, NoneValue, "'residential'"),
     PlanData("tiered_bimonthly_floor", BillTiers, <<>>, IntValue(2), "'residential'"),
     PlanData("tou_monthly", <<>>, BillRates, NoneValue, "None")}

\* store.definitions(): 2 kWh per ampere for a single-phase 110 V meter
BillDefinitions ==
    [minimum_usage_rules |->
        ("'residential'" :>
            <<[phase |-> "'three'", voltage_v |-> 220, ampere_threshold |-> NoneValue,
               kwh_per_ampere |-> 6, kwh_per_ampere_over |-> 6],
              [phase |-> "'single'", voltage_v |-> 110, ampere_threshold |-> IntValue(60),
               kwh_per_ampere |-> 2, kwh_per_ampere_over |-> 3]>>)]

BillInputsOfCaller ==
    {BillingInputs(phase_voltage_ampere[1], phase_voltage_ampere[2],
                   phase_voltage_ampere[3], billing_cycle_months) :
        phase_voltage_ampere \in {<<"None", NoneValue, NoneValue>>,
                                  <<"'single'", IntValue(110), IntValue(60)>>},
        billing_cycle_months \in {NoneValue, IntValue(2)}}

BillTimestamps ==
    {Timestamp(Date(2024, 12, 15), Time(10, 0)),
     Timestamp(Date(2025, 1, 15), Time(10, 0)),
     Timestamp(Date(2025, 2, 15), Time(10, 0)),
     Timestamp(Date(2025, 7, 15), Time(10, 0))}

\* indexes in ascending order without repeated timestamps, and pairs of
\* timestamps in descending order
BillIndexes ==
    {index \in SeqsUpTo(BillTimestamps, MaxUsageLen) :
        /\ index # <<>>
        /\ \/ \A i \in 1..(Len(index) - 1) : TsOrd(index[i]) < TsOrd(index[i + 1])
           \/ Len(index) = 2 /\ TsOrd(index[2]) < TsOrd(index[1])}

SeriesOver(indexes, values) ==
    UNION {{[i \in DOMAIN index |-> [ts |-> index[i], kwh |-> kwh[i]]] :
                kwh \in [DOMAIN index -> values]} : index \in indexes}

BillValues == {Fin(0), Fin(60), Fin(250), Fin(-1), NaN, PosInf}

BillSeries == SeriesOver(BillIndexes, BillValues)

\* the series given together with a meter: in ascending order, with values
\* that the minimum-usage floor scales to whole kWh
FloorSeries ==
    SeriesOver({index \in BillIndexes : is_monotonic_increasing(index)},
               {Fin(0), Fin(60), Fin(250)})

InitBill ==
    /\ profile = BillProfile
    /\ engine = NoEngine
    /\ plan = NoPlan
    /\ inputs \in BillInputsOfCaller
    /\ usage_kwh \in IF inputs.meter_phase = "None" THEN BillSeries ELSE FloorSeries
    /\ op = "none"
    /\ target = <<>>
    /\ context = <<>>
    /\ result = <<>>
    /\ calls = 0
    /\ threads = <<>>
    /\ calendar = NoCalendar

\* the call of one of the two entry points on a plan of the store
BillCall(name) ==
    /\ calls < MaxBills
    /\ calls' = calls + 1
    /\ op' = name
    /\ \E plan_data \in BillPlans :
        \E steps \in {BillSteps(usage_kwh, plan_data, BillDefinitions, inputs)} :
            /\ plan' = plan_data
            /\ inputs' = steps.inputs
            /\ usage_kwh' = steps.usage
            /\ target' = IndexOfSeries(steps.usage_for_billing)
            /\ context' = [usage_for_billing |-> steps.usage_for_billing,
                           billing_periods |-> steps.billing_periods,
                           rates |-> steps.rates,
                           context |-> steps.context]
            /\ \E pick \in BillSeasonPicks(target', steps.billing_periods, steps.context) :
                    result' = Returned(_calculate_energy_costs(
                                  steps.usage_for_billing, steps.context,
                                  steps.billing_periods, steps.rates, pick))
    /\ UNCHANGED <<profile, engine, threads, calendar>>

\* billing.py calculate_bill (lines 337-419): the energy_cost column
CalculateBill == BillCall("calculate_bill")

\* billing.py calculate_bill_breakdown (lines 441-564): the energy_cost
\* column of the summary
CalculateBillBreakdown == BillCall("calculate_bill_breakdown")

NextBill == CalculateBill \/ CalculateBillBreakdown

SpecBill == InitBill /\ [][NextBill]_vars

(***************************************************************************)
(* tariff.py TariffPlan.monthly_breakdown.  A share is the quotient of two *)
(* floats, kept as a fraction: Ratio(num, den), or not a number, or        *)
(* infinite, as float division gives them.                                 *)
(***************************************************************************)
NoShare == [k |-> "none", num |-> 0, den |-> 0]

Ratio(num, den) == [k |-> "ratio", num |-> num, den |-> den]

\* a / b of two floats
FDiv(a, b) ==
    IF IsNaN(a) \/ IsNaN(b) THEN [k |-> "nan", num |-> 0, den |-> 0]
    ELSE IF b.k = "fin" /\ b.v = 0
         THEN IF a.k = "fin" /\ a.v = 0 THEN [k |-> "nan", num |-> 0, den |-> 0]
              ELSE [k |-> "inf", num |-> 0, den |-> 0]
    ELSE IF b.k # "fin"
         THEN IF a.k # "fin" THEN [k |-> "nan", num |-> 0, den |-> 0] ELSE Ratio(0, 1)
    ELSE IF a.k # "fin" THEN [k |-> "inf", num |-> 0, den |-> 0]
    ELSE Ratio(a.v, b.v)

\* the distinct keys of a column in the order they first appear (sort=False)
RECURSIVE FirstAppearance(_, _)
FirstAppearance(keys, i) ==
    IF i > Len(keys) THEN <<>>
    ELSE IF \E j \in 1..(i - 1) : keys[j] = keys[i] THEN FirstAppearance(keys, i + 1)
    ELSE <<keys[i]>> \o FirstAppearance(keys, i + 1)

\* context["season"].groupby(billing_period_index): the seasons of a group
RECURSIVE GroupSeasons(_, _, _, _)
GroupSeasons(ctx, keys, k, i) ==
    IF i > Len(keys) THEN <<>>
    ELSE IF keys[i] = k THEN <<ctx[i].season>> \o GroupSeasons(ctx, keys, k, i + 1)
    ELSE GroupSeasons(ctx, keys, k, i + 1)

\* the choices x.mode().iloc[0] can make for the season of each period
MonthSeasonPicks(cycle_type, u, ctx) ==
    LET keys == _billing_period_group_index(IndexOfSeries(u), cycle_type)
        K == {keys[i] : i \in DOMAIN keys}
    IN  {pick \in [K -> {SUMMER, NON_SUMMER}] :
            \A k \in K : pick[k] \in Modes(GroupSeasons(ctx, keys, k, 1))}

\* the tiered branch (lines 542-585): one row per billing period
_breakdown_tiered(rates, cycle_type, u, ctx, pick, month_seasons, include_shares) ==
    LET keys == _billing_period_group_index(IndexOfSeries(u), cycle_type)
        months == FirstAppearance(keys, 1)
        monthly_usage == GroupBySum(ValuesOfSeries(u), keys)
        monthly_costs == _calculate_tiered_costs(rates, cycle_type, u, ctx, pick)
    IN  [n \in DOMAIN months |->
            [month |-> months[n],
             season |-> _label_value(month_seasons[months[n]]),
             period |-> "'tiered'",
             usage_kwh |-> monthly_usage[months[n]],
             cost |-> monthly_costs[months[n]],
             usage_share |-> IF include_shares THEN Ratio(1, 1) ELSE NoShare,
             cost_share |-> IF include_shares THEN Ratio(1, 1) ELSE NoShare]]

\* the TOU branch (lines 587-624): one row per month, season and period
_breakdown_tou(rates, u, ctx, include_shares) ==
    LET unit_costs == [i \in DOMAIN u |-> get_cost(rates, ctx[i].season, ctx[i].period)]
        month_index == _month_group_index(IndexOfSeries(u))
        base == [i \in DOMAIN u |-> <<to_period_M(month_index[i]), _label_value(ctx[i].season), _label_value(ctx[i].period)>>]
        costs == [i \in DOMAIN u |-> FMul(u[i].kwh, Fin(unit_costs[i]))]
        groups == FirstAppearance(base, 1)
        usage_of == GroupBySum(ValuesOfSeries(u), base)
        cost_of == GroupBySum(costs, base)
        grouped_usage == [n \in DOMAIN groups |-> usage_of[groups[n]]]
        grouped_cost == [n \in DOMAIN groups |-> cost_of[groups[n]]]
        months == [n \in DOMAIN groups |-> groups[n][1]]
        month_usage == GroupBySum(grouped_usage, months)
        month_cost == GroupBySum(grouped_cost, months)
    IN  [n \in DOMAIN groups |->
            [month |-> groups[n][1], season |-> groups[n][2], period |-> groups[n][3],
             usage_kwh |-> grouped_usage[n],
             cost |-> grouped_cost[n],
             usage_share |-> IF include_shares THEN FDiv(grouped_usage[n], month_usage[months[n]]) ELSE NoShare,
             cost_share |-> IF include_shares THEN FDiv(grouped_cost[n], month_cost[months[n]]) ELSE NoShare]]

BreakdownRaised(error) == [raised |-> error, rows |-> <<>>, include_shares |-> FALSE]

BreakdownReturned(rows, include_shares) ==
    [raised |-> "none", rows |-> rows, include_shares |-> include_shares]

InitBreakdown ==
    /\ profile = CostProfile
    /\ engine = NoEngine
    /\ plan \in CostPlans
    /\ usage_kwh \in CostSeries
    /\ op = "none"
    /\ target = <<>>
    /\ context = <<>>
    /\ result = <<>>
    /\ calls = 0
    /\ inputs = NoInputs
    /\ threads = <<>>
    /\ calendar = NoCalendar

\* tariff.py TariffPlan.monthly_breakdown (lines 530-624)
MonthlyBreakdown ==
    /\ calls < MaxCalls
    /\ calls' = calls + 1
    /\ op' = "monthly_breakdown"
    /\ target' = IndexOfSeries(usage_kwh)
    /\ \E include_shares \in BOOLEAN :
        IF _validate_usage_series(usage_kwh) # "ok"
        THEN /\ result' = BreakdownRaised(_validate_usage_series(usage_kwh))
             /\ context' = <<>>
             /\ UNCHANGED engine
        ELSE /\ engine' = EngineOf(profile, engine)
             /\ context' = evaluate(profile, engine', target')
             /\ IF plan.rates.tiered_rates # <<>>
                THEN \E pick \in SeasonPicks(plan.billing_cycle_type, usage_kwh, context') :
                     \E month_seasons \in MonthSeasonPicks(plan.billing_cycle_type, usage_kwh, context') :
                        result' = BreakdownReturned(
                                      _breakdown_tiered(plan.rates, plan.billing_cycle_type,
                                                        usage_kwh, context', pick,
                                                        month_seasons, include_shares),
                                      include_shares)
                ELSE result' = BreakdownReturned(
                                   _breakdown_tou(plan.rates, usage_kwh, context', include_shares),
                                   include_shares)
    /\ UNCHANGED <<profile, plan, usage_kwh>>
    /\ UNCHANGED <<inputs, threads, calendar>>

NextBreakdown == MonthlyBreakdown

SpecBreakdown == InitBreakdown /\ [][NextBreakdown]_vars

(***************************************************************************)
(* calendar.py: the holiday loader behind TaiwanCalendar.is_holiday.  The  *)
(* loader keeps a memory cache and cache files per year and fetches a year *)
(* from the holiday API in at most three attempts.  The holidays the API   *)
(* and a cache file give for a year are load_holidays(year) above.         *)
(***************************************************************************)
MaxQueries == 2

\* date.today().year
CurrentYear == 2025

HolidayYears == {2025, 2030}

HolidayDates ==
    {D_2025_07_15, D_2025_07_20, D_2025_01_01, D_2025_10_25,
     Date(2025, 5, 31), Date(2030, 1, 2), Date(2030, 1, 6)}

\* what one pass of the loop of fetch can meet: the data, an HTTPError with
\* code 404 or another code, an error of the classes URLError, TimeoutError
\* and OSError, or an exception of another class (a body that is not JSON)
FetchOutcomes == {"ok", "HTTPError404", "HTTPError500", "URLError", "ValueError"}

NoFetch ==
    [year |-> 0, attempt |-> 0, attempts |-> 0, delay |-> 1, sleeps |-> <<>>,
     last_exc |-> "None", status |-> "none", error |-> "None"]

\* the first lines of fetch (lines 184-186)
StartFetch(year) == [NoFetch EXCEPT !.year = year, !.status = "running"]

\* one pass of the loop with a wait after the third failure as well
fetch_attempt_SleepsAfterLast(f, outcome) ==
    LET tried == [f EXCEPT !.attempts = f.attempts + 1]
    IN  IF outcome = "ok" THEN [tried EXCEPT !.status = "returned"]
        ELSE IF outcome \in {"HTTPError404", "ValueError"} THEN [tried EXCEPT !.status = "raised", !.error = outcome]
        ELSE IF f.attempt = 2 THEN [tried EXCEPT !.last_exc = outcome, !.sleeps = Append(f.sleeps, IF f.delay < 10 THEN f.delay ELSE 10), !.status = "raised", !.error = outcome]
        ELSE [tried EXCEPT !.last_exc = outcome, !.sleeps = Append(f.sleeps, IF f.delay < 10 THEN f.delay ELSE 10), !.delay = f.delay * 2, !.attempt = f.attempt + 1]

\* calendar.py _HolidayFetcher.fetch: one pass of the loop (lines 187-205)
\* and, when the loop is left, the raise after it (lines 206-208)
fetch_attempt(f, outcome) ==
    LET tried == [f EXCEPT !.attempts = f.attempts + 1]
    IN  IF outcome = "ok" THEN [tried EXCEPT !.status = "returned"]
        ELSE IF outcome \in {"HTTPError404", "ValueError"}
             THEN [tried EXCEPT !.status = "raised", !.error = outcome]
        ELSE IF f.attempt = 2
             THEN [tried EXCEPT !.last_exc = outcome,
                                !.status = "raised", !.error = outcome]
        ELSE [tried EXCEPT !.last_exc = outcome,
                           !.sleeps = Append(f.sleeps, IF f.delay < 10 THEN f.delay ELSE 10),
                           !.delay = f.delay * 2,
                           !.attempt = f.attempt + 1]

\* the dates of the lunar holidays of a year, none without the zhdate package
LunarDates(year, lunar_available) ==
    IF lunar_available /\ year = 2025
    THEN {<<1, 29>>, <<1, 30>>, <<1, 31>>, <<5, 31>>, <<10, 6>>}
    ELSE {}

\* calendar.py _HolidayParser.lunar_holidays: membership of a date
lunar_holidays(d, lunar_available) ==
    \/ d.weekday = 6
    \/ <<d.month, d.day>> \in {<<1, 1>>, <<2, 28>>, <<4, 4>>, <<5, 1>>, <<10, 10>>}
    \/ <<d.month, d.day>> \in LunarDates(d.year, lunar_available)

\* target in holidays, for the holidays the memory cache holds for the year
InCachedHolidays(cal, d) ==
    IF cal.memory[d.year] = "lunar" THEN lunar_holidays(d, cal.lunar_available)
    ELSE d \in load_holidays(d.year)

HolidayResult(value) == [raised |-> "none", value |-> value]

HolidayRaised(error) == [raised |-> error, value |-> FALSE]

\* the fallback at the end of load_holidays (lines 251-254)
LunarFallback(cal, year) == [cal EXCEPT !.memory[year] = "lunar"]

InitHolidays ==
    /\ profile = <<>>
    /\ engine = NoEngine
    /\ plan = NoPlan
    /\ usage_kwh = <<>>
    /\ op = "none"
    /\ target = <<>>
    /\ context = <<>>
    /\ result = <<>>
    /\ calls = 0
    /\ inputs = NoInputs
    /\ threads = <<>>
    /\ calendar \in [memory : [HolidayYears -> {"none"}],
                     files : [HolidayYears -> {"none", "data", "corrupt"}],
                     lunar_available : BOOLEAN,
                     fetch : {NoFetch}]

\* calendar.py TaiwanCalendar.is_holiday(date) (lines 282-287) with
\* _HolidayLoader.load_holidays up to the call of fetch (lines 218-240)
IsHoliday ==
    /\ calendar.fetch.status # "running"
    /\ calls < MaxQueries
    /\ calls' = calls + 1
    /\ op' = "is_holiday"
    /\ \E d \in HolidayDates :
        /\ target' = d
        /\ IF d.weekday = 6
           THEN /\ result' = HolidayResult(TRUE)
                /\ UNCHANGED calendar
           ELSE IF calendar.memory[d.year] # "none"
           THEN /\ result' = HolidayResult(InCachedHolidays(calendar, d))
                /\ UNCHANGED calendar
           ELSE IF calendar.files[d.year] = "data"
           THEN /\ calendar' = [calendar EXCEPT !.memory[d.year] = "file"]
                /\ result' = HolidayResult(InCachedHolidays(calendar', d))
           ELSE IF d.year <= CurrentYear + 1
           THEN /\ calendar' = [calendar EXCEPT !.fetch = StartFetch(d.year)]
                /\ result' = <<>>
           ELSE /\ calendar' = LunarFallback(calendar, d.year)
                /\ result' = HolidayResult(InCachedHolidays(calendar', d))
    /\ UNCHANGED <<profile, engine, plan, usage_kwh, context, inputs, threads>>

\* one pass of the loop of fetch and, when fetch returns or raises, the
\* rest of load_holidays (lines 241-254) and of is_holiday
FetchAttempt ==
    /\ calendar.fetch.status = "running"
    /\ \E outcome \in FetchOutcomes, written \in BOOLEAN :
        \E f \in {fetch_attempt(calendar.fetch, outcome)} :
            IF f.status = "running"
            THEN /\ calendar' = [calendar EXCEPT !.fetch = f]
                 /\ UNCHANGED result
            ELSE IF f.status = "returned" /\ written
            THEN /\ calendar' = [calendar EXCEPT !.fetch = f,
                                                 !.files[f.year] = "data",
                                                 !.memory[f.year] = "api"]
                 /\ result' = HolidayResult(InCachedHolidays(calendar', target))
            ELSE IF f.status = "raised" /\ f.error = "HTTPError500"
            THEN /\ calendar' = [calendar EXCEPT !.fetch = f]
                 /\ result' = HolidayRaised(f.error)
            ELSE /\ calendar' = LunarFallback([calendar EXCEPT !.fetch = f], f.year)
                 /\ result' = HolidayResult(InCachedHolidays(calendar', target))
    /\ UNCHANGED <<profile, engine, plan, usage_kwh, op, target, context, calls,
                   inputs, threads>>

NextHolidays == IsHoliday \/ FetchAttempt

SpecHolidays == InitHolidays /\ [][NextHolidays]_vars

\* an attempt ends, with the data or an error, within api_timeout seconds,
\* and the thread that runs fetch goes on to the next pass
SpecHolidaysLive == SpecHolidays /\ WF_vars(FetchAttempt)

(***************************************************************************)
(* The tier loops once more, returning what they leave in their locals:    *)
(* usage_in_tier_kwh of every tier visited, in order, and remaining_kwh at *)
(* the end (tariff.py lines 494-522, billing.py lines 1347-1359).          *)
(***************************************************************************)
RECURSIVE TierUsage(_, _, _, _, _, _)
TierUsage(tiers, i, remaining_kwh, last_limit_kwh, amounts, mult) ==
    IF i > Len(tiers) \/ FLe(remaining_kwh, Fin(0))
    THEN [amounts |-> amounts, remaining_kwh |-> remaining_kwh]
    ELSE LET tier == tiers[i]
             tier_end0 == IF tier.end_kwh < NoLimitKwh THEN Fin(tier.end_kwh) ELSE PosInf
             tier_start == last_limit_kwh
             tier_end == IF mult = 1 THEN tier_end0 ELSE FMul(tier_end0, Fin(mult))
             tier_limit_kwh == FSub(tier_end, tier_start)
             usage_in_tier_kwh == PyMin(remaining_kwh, tier_limit_kwh)
         IN  TierUsage(tiers, i + 1, FSub(remaining_kwh, usage_in_tier_kwh), tier_end,
                       Append(amounts, usage_in_tier_kwh), mult)

RECURSIVE BillingTierUsage(_, _, _, _, _)
BillingTierUsage(tiers, i, remaining_kwh, last_limit_kwh, amounts) ==
    IF i > Len(tiers) \/ FLe(remaining_kwh, Fin(0))
    THEN [amounts |-> amounts, remaining_kwh |-> remaining_kwh]
    ELSE LET tier == tiers[i]
             tier_limit_kwh == IF tier.end_kwh < NoLimitKwh
                               THEN FSub(Fin(tier.end_kwh), last_limit_kwh)
                               ELSE PosInf
             usage_in_tier_kwh == PyMin(remaining_kwh, tier_limit_kwh)
         IN  BillingTierUsage(tiers, i + 1, FSub(remaining_kwh, usage_in_tier_kwh),
                              Fin(tier.end_kwh), Append(amounts, usage_in_tier_kwh))

(***************************************************************************)
(* Threads that call calculate_costs on one plan whose engine is not built *)
(* yet (tariff.py TariffProfile.engine, lines 126-132, and                 *)
(* _TariffEngine.__init__, lines 179-220).  The variable engine is the     *)
(* attribute profile._engine, NoEngine for None; each thread goes through  *)
(* the test of the attribute, the constructor (one slice assignment of the *)
(* lookup table per step, in an object of its own), the assignment of the  *)
(* attribute, and the read of the attribute followed by the evaluation.    *)
(***************************************************************************)
MaxThreads == 2

ThreadIds == 1..MaxThreads

ThreadSeries ==
    {<<[ts |-> Timestamp(Date(2025, 7, 15), Time(8, 0)), kwh |-> Fin(120)],
       [ts |-> Timestamp(Date(2025, 7, 15), Time(10, 0)), kwh |-> Fin(200)]>>,
     <<[ts |-> Timestamp(Date(2025, 1, 15), Time(10, 0)), kwh |-> Fin(250)]>>}

ThreadPlans == {p \in CostPlans : p.billing_cycle_type = MONTHLY}

\* the results calculate_costs can return with the engine e
CostResultsWith(p, e, rate_plan, u) ==
    LET ctx == evaluate(p, e, IndexOfSeries(u))
    IN  IF rate_plan.rates.tiered_rates # <<>>
        THEN {Returned(_calculate_tiered_costs(rate_plan.rates, rate_plan.billing_cycle_type, u, ctx, pick)) :
                pick \in SeasonPicks(rate_plan.billing_cycle_type, u, ctx)}
        ELSE {Returned(_calculate_tou_costs(rate_plan.rates, u, ctx))}

\* the engine the constructor builds for the plan of the threads
ThreadEngine == _build_lookup_table(CostProfile)

\* the results of calculate_costs with the engine the constructor builds,
\* computed once per plan and usage
ThreadResults ==
    {[plan |-> p, usage |-> u, results |-> CostResultsWith(CostProfile, ThreadEngine, p, u)] :
        p \in ThreadPlans, u \in ThreadSeries}

\* the results calculate_costs can return when profile.engine returned e
CostResultsSeen(e, rate_plan, u) ==
    IF e = ThreadEngine
    THEN (CHOOSE r \in ThreadResults : r.plan = rate_plan /\ r.usage = u).results
    ELSE CostResultsWith(CostProfile, e, rate_plan, u)

\* the next state of the object a constructor is building towards full:
\* the period types, then the slice assignments one by one, then the return
ConstructStep(full, local) ==
    LET done == Len(local.lookup_table)
    IN  IF local.period_types = <<>>
        THEN [built |-> FALSE, period_types |-> full.period_types, lookup_table |-> <<>>]
        ELSE IF done < Len(full.lookup_table)
        THEN [local EXCEPT !.lookup_table = SubSeq(full.lookup_table, 1, done + 1)]
        ELSE [local EXCEPT !.built = TRUE]

\* an attribute that already refers to the object while its constructor runs
AttributeWhileConstructing_ObjectVisible(shared, local) == local

\* profile._engine while a constructor runs: line 131 assigns the attribute
\* only when _TariffEngine(self) has returned
AttributeWhileConstructing(shared, local) == shared

InitThreads ==
    /\ profile = CostProfile
    /\ engine = NoEngine
    /\ plan \in ThreadPlans
    /\ usage_kwh \in ThreadSeries
    /\ op = "calculate_costs"
    /\ target = IndexOfSeries(usage_kwh)
    /\ context = <<>>
    /\ result = <<>>
    /\ calls = 0
    /\ inputs = NoInputs
    /\ threads = [t \in ThreadIds |-> [pc |-> "call", local |-> NoEngine, result |-> <<>>]]
    /\ calendar = NoCalendar

\* line 129: if self._engine is None
TestEngine(t) ==
    /\ threads[t].pc = "call"
    /\ threads' = [threads EXCEPT ![t].pc = IF engine = NoEngine THEN "construct" ELSE "return"]
    /\ UNCHANGED <<profile, engine, plan, usage_kwh, op, target, context, result, calls,
                   inputs, calendar>>

\* one step of _TariffEngine(self) (lines 179-220)
Construct(t) ==
    /\ threads[t].pc = "construct"
    /\ \E local \in {ConstructStep(ThreadEngine, threads[t].local)} :
        /\ threads' = [threads EXCEPT ![t].local = local,
                                      ![t].pc = IF local.built THEN "assign" ELSE "construct"]
        /\ engine' = AttributeWhileConstructing(engine, local)
    /\ UNCHANGED <<profile, plan, usage_kwh, op, target, context, result, calls,
                   inputs, calendar>>

\* line 131: self._engine = <the object built>
AssignEngine(t) ==
    /\ threads[t].pc = "assign"
    /\ engine' = threads[t].local
    /\ threads' = [threads EXCEPT ![t].pc = "return"]
    /\ UNCHANGED <<profile, plan, usage_kwh, op, target, context, result, calls,
                   inputs, calendar>>

\* line 132: return self._engine, and the rest of calculate_costs
ReturnEngine(t) ==
    /\ threads[t].pc = "return"
    /\ \E r \in CostResultsSeen(engine, plan, usage_kwh) :
        threads' = [threads EXCEPT ![t].pc = "done", ![t].result = r]
    /\ UNCHANGED <<profile, engine, plan, usage_kwh, op, target, context, result, calls,
                   inputs, calendar>>

NextThreads ==
    \E t \in ThreadIds : TestEngine(t) \/ Construct(t) \/ AssignEngine(t) \/ ReturnEngine(t)

SpecThreads == InitThreads /\ [][NextThreads]_vars

\* every thread of the pool is scheduled again and again
SpecThreadsLive ==
    SpecThreads
    /\ \A t \in ThreadIds :
        WF_vars(TestEngine(t) \/ Construct(t) \/ AssignEngine(t) \/ ReturnEngine(t))

(***************************************************************************)
(* Slot coverage as the data model states it: [start, end) when            *)
(* start < end, [start, 24:00) and [00:00, end) when start > end, the full *)
(* day when start = end = 00:00.                                           *)
(***************************************************************************)
SlotCovers(slot, t) ==
    IF TimeLT(slot.start, slot.end)
    THEN TimeLE(slot.start, t) /\ TimeLT(t, slot.end)
    ELSE IF TimeLT(slot.end, slot.start)
         THEN TimeLE(slot.start, t) \/ TimeLT(t, slot.end)
         ELSE slot.start = Time(0, 0)

CoveringSlots(slots, t) == {i \in DOMAIN slots : SlotCovers(slots[i], t)}

FirstCovering(slots, t) ==
    slots[CHOOSE i \in CoveringSlots(slots, t) : \A j \in CoveringSlots(slots, t) : i <= j]

\* the slots of the schedule that applies to the i-th resolved timestamp
SlotsAt(i) ==
    LET sch == ScheduleFor(profile, context[i].season, context[i].day_type)
    IN  IF sch = <<>> THEN <<>> ELSE sch[1]

(***************************************************************************)
(* C1: for every profile and timestamp, the period of batch resolution     *)
(* (lookup table) equals the period of scalar resolution (slot scan).      *)
(***************************************************************************)
C1_BatchEqualsScalar ==
    op = "batch" =>
        \A i \in DOMAIN target :
            context[i].period = get_period_type_scalar(profile, target[i])

(***************************************************************************)
(* C9: a minute covered by several slots of its schedule resolves to the   *)
(* period of the first covering slot in declared order, in scalar and in   *)
(* batch resolution.  Stated for schedules whose slots all have            *)
(* start # end; slots with start = end are the subject of C10.             *)
(***************************************************************************)
ProperSlots(slots) == \A k \in DOMAIN slots : slots[k].start # slots[k].end

C9_FirstOverlappingSlotWins ==
    op \in {"scalar", "batch"} =>
        \A i \in DOMAIN target :
            (/\ ProperSlots(SlotsAt(i))
             /\ Cardinality(CoveringSlots(SlotsAt(i), target[i].time)) >= 2) =>
                context[i].period = FirstCovering(SlotsAt(i), target[i].time).period_type

(***************************************************************************)
(* C10: a day whose schedule is one slot from 00:00 to 00:00 (or "24:00")  *)
(* resolves to that slot's period at every minute, in scalar and in batch  *)
(* resolution, also when the period differs from the default.              *)
(***************************************************************************)
C10_FullDaySlotCoversDay ==
    op \in {"scalar", "batch"} =>
        \A i \in DOMAIN target :
            (/\ Len(SlotsAt(i)) = 1
             /\ SlotsAt(i)[1].start = Time(0, 0)
             /\ SlotsAt(i)[1].end = Time(0, 0))
            => context[i].period = SlotsAt(i)[1].period_type

(***************************************************************************)
(* C6: under ODD_MONTH a timestamp in month m of year Y gets the key       *)
(* (Y, 1) for m = 1, (Y, ((m // 2) * 2) + 1) for m in 2..11, which is the  *)
(* odd month closing the pair (2,3), (4,5), (6,7), (8,9), (10,11), and     *)
(* (Y + 1, 1) for m = 12.                                                  *)
(***************************************************************************)
OddMeterMonth == <<1, 3, 3, 5, 5, 7, 7, 9, 9, 11, 11, 1>>

C6_OddMonthKey ==
    (op = "group" /\ plan.billing_cycle_type = ODD_MONTH) =>
        \A i \in DOMAIN target :
            LET Y == target[i].date.year
                m == target[i].date.month
            IN  /\ m = 1 => context[i] = <<Y, 1>>
                /\ m \in 2..11 => context[i] = <<Y, ((m \div 2) * 2) + 1>>
                /\ m = 12 => context[i] = <<Y + 1, 1>>
                /\ context[i][2] = OddMeterMonth[m]

\* December 2024 and January 2025 were grouped under ODD_MONTH
C6_Witness ==
    /\ op = "group"
    /\ plan.billing_cycle_type = ODD_MONTH
    /\ Len(target) = 2
    /\ to_period_M(target[1]) = <<2024, 12>>
    /\ to_period_M(target[2]) = <<2025, 1>>
    /\ context = <<(<<2025, 1>>), (<<2025, 1>>)>>

(***************************************************************************)
(* C7: under EVEN_MONTH a timestamp in month m of year Y gets the key      *)
(* (Y, ((m + 1) // 2) * 2), always in year Y; a December and the January   *)
(* that follows it are never in the same group.                            *)
(***************************************************************************)
C7_EvenMonthKey ==
    (op = "group" /\ plan.billing_cycle_type = EVEN_MONTH) =>
        /\ \A i \in DOMAIN target :
              context[i] = <<target[i].date.year, ((target[i].date.month + 1) \div 2) * 2>>
        /\ \A i, j \in DOMAIN target :
              (/\ target[i].date.month = 12
               /\ target[j].date.month = 1
               /\ target[j].date.year = target[i].date.year + 1)
              => context[i] # context[j]

\* December 2024 and January 2025 were grouped under EVEN_MONTH
C7_Witness ==
    /\ op = "group"
    /\ plan.billing_cycle_type = EVEN_MONTH
    /\ Len(target) = 2
    /\ to_period_M(target[1]) = <<2024, 12>>
    /\ to_period_M(target[2]) = <<2025, 1>>
    /\ context = <<(<<2024, 12>>), (<<2025, 2>>)>>

(***************************************************************************)
(* C8: for every cycle type each timestamp gets exactly one key, the       *)
(* groups partition the series (the group totals add up to the series      *)
(* total), and a key lies in a later year than its timestamp only under    *)
(* ODD_MONTH.                                                              *)
(***************************************************************************)
RECURSIVE SumOfTotals(_, _)
SumOfTotals(totals, keys) ==
    IF keys = {} THEN 0
    ELSE LET k == CHOOSE x \in keys : TRUE
         IN  totals[k].v + SumOfTotals(totals, keys \ {k})

RECURSIVE SumOfRows(_, _)
SumOfRows(u, i) == IF i > Len(u) THEN 0 ELSE u[i].kwh.v + SumOfRows(u, i + 1)

C8_GroupsPartition ==
    op = "group" =>
        /\ DOMAIN context = DOMAIN usage_kwh
        /\ \A i \in DOMAIN usage_kwh :
              Cardinality({k \in DOMAIN result : i \in GroupRows(context, k)}) = 1
        /\ SumOfTotals(result, DOMAIN result) = SumOfRows(usage_kwh, 1)
        /\ \A i \in DOMAIN usage_kwh :
              context[i][1] > usage_kwh[i].ts.date.year
                  => plan.billing_cycle_type = ODD_MONTH

\* two rows in two different groups, one of them moved into the next year
C8_Witness ==
    /\ op = "group"
    /\ Len(usage_kwh) = 2
    /\ Cardinality(DOMAIN result) = 2
    /\ \E i \in DOMAIN usage_kwh : context[i][1] > usage_kwh[i].ts.date.year

(***************************************************************************)
(* Properties of a usage series, as the validation rules name them         *)
(***************************************************************************)
HasNaN(u) == \E i \in DOMAIN u : u[i].kwh = NaN

HasNegative(u) == \E i \in DOMAIN u : u[i].kwh.k = "ninf" \/ (u[i].kwh.k = "fin" /\ u[i].kwh.v < 0)

HasInfinite(u) == \E i \in DOMAIN u : u[i].kwh \in {PosInf, NegInf}

OutOfOrder(u) == \E i, j \in DOMAIN u : i < j /\ TsOrd(u[j].ts) < TsOrd(u[i].ts)

IsTiered == plan.rates.tiered_rates # <<>>

(***************************************************************************)
(* C2: calculate_costs raises InvalidUsageInput, for TOU and tiered plans, *)
(* whenever the series has a NaN, a negative value or an index that is not *)
(* sorted ascending; it does so before any season/period lookup (no        *)
(* context was evaluated, the engine was not built) and returns no costs.  *)
(***************************************************************************)
C2_InvalidUsageRejected ==
    (/\ op = "calculate_costs"
     /\ (HasNaN(usage_kwh) \/ HasNegative(usage_kwh) \/ OutOfOrder(usage_kwh)))
    => /\ result = Raised("InvalidUsageInput")
       /\ context = <<>>
       /\ ~engine.built

\* a TOU plan rejected a series whose only fault is a negative value
C2_Witness ==
    /\ op = "calculate_costs"
    /\ ~IsTiered
    /\ HasNegative(usage_kwh)
    /\ ~HasNaN(usage_kwh)
    /\ ~OutOfOrder(usage_kwh)
    /\ result.raised = "InvalidUsageInput"

(***************************************************************************)
(* C3: a usage series that contains an infinite value is rejected by       *)
(* calculate_costs with InvalidUsageInput before any cost is computed, for *)
(* TOU and tiered plans.                                                   *)
(***************************************************************************)
C3_InfiniteUsageRejected ==
    (op = "calculate_costs" /\ HasInfinite(usage_kwh))
    => /\ result = Raised("InvalidUsageInput")
       /\ context = <<>>

(***************************************************************************)
(* Billing periods of the series handed to calculate_costs                 *)
(***************************************************************************)
PeriodKeys == _billing_period_group_index(target, plan.billing_cycle_type)

PeriodTotal(k) == PdSum(SelectValues(ValuesOfSeries(usage_kwh), PeriodKeys, k, 1), 1)

PeriodInSeason(k, season) ==
    \A i \in DOMAIN target : PeriodKeys[i] = k => context[i].season = season

TieredCostsReturned == op = "calculate_costs" /\ IsTiered /\ result.raised = "none"

(***************************************************************************)
(* C4 as stated: with tiers 0-120 kWh at 1.78 and above at 2.26            *)
(* (non-summer), the tier walk prices a period total of 200 kWh at         *)
(* 200 x 1.78 = 356.00 and one of 300 kWh at 120 x 1.78 + 180 x 2.26       *)
(* = 620.40.                                                               *)
(***************************************************************************)
C4_TierWalkAsStated ==
    (TieredCostsReturned /\ plan.billing_cycle_type = MONTHLY) =>
        \A k \in DOMAIN result.costs :
            PeriodInSeason(k, NON_SUMMER) =>
                /\ PeriodTotal(k) = Fin(200) =>
                      /\ result.costs[k] = Fin(200 * 178)
                      /\ _tiered_total_cost(PeriodTotal(k), NON_SUMMER,
                                            plan.rates.tiered_rates) = Fin(200 * 178)
                /\ PeriodTotal(k) = Fin(300) =>
                      /\ result.costs[k] = Fin(120 * 178 + 180 * 226)
                      /\ _tiered_total_cost(PeriodTotal(k), NON_SUMMER,
                                            plan.rates.tiered_rates)
                            = Fin(120 * 178 + 180 * 226)

(***************************************************************************)
(* C4 amended: 200 kWh is priced at 120 x 1.78 + 80 x 2.26 = 394.40 and    *)
(* 300 kWh at 120 x 1.78 + 180 x 2.26 = 620.40, by the plan's tier walk    *)
(* under MONTHLY and by _tiered_total_cost.                                *)
(***************************************************************************)
C4_TierWalkExactness ==
    (TieredCostsReturned /\ plan.billing_cycle_type = MONTHLY) =>
        \A k \in DOMAIN result.costs :
            PeriodInSeason(k, NON_SUMMER) =>
                /\ PeriodTotal(k) = Fin(200) =>
                      /\ result.costs[k] = Fin(39440)
                      /\ _tiered_total_cost(PeriodTotal(k), NON_SUMMER,
                                            plan.rates.tiered_rates) = Fin(39440)
                /\ PeriodTotal(k) = Fin(300) =>
                      /\ result.costs[k] = Fin(62040)
                      /\ _tiered_total_cost(PeriodTotal(k), NON_SUMMER,
                                            plan.rates.tiered_rates) = Fin(62040)

\* January with 200 kWh and February with 300 kWh were priced under MONTHLY
C4_Witness ==
    /\ TieredCostsReturned
    /\ plan.billing_cycle_type = MONTHLY
    /\ <<2025, 1>> \in DOMAIN result.costs
    /\ <<2025, 2>> \in DOMAIN result.costs
    /\ PeriodTotal(<<2025, 1>>) = Fin(200)
    /\ PeriodTotal(<<2025, 2>>) = Fin(300)
    /\ result.costs[<<2025, 1>>] = Fin(39440)
    /\ result.costs[<<2025, 2>>] = Fin(62040)

(***************************************************************************)
(* C5: for a tiered plan under ODD_MONTH or EVEN_MONTH every finite tier   *)
(* end is doubled before the walk and the unbounded tier stays unbounded;  *)
(* under MONTHLY the ends are used as declared.  With the two tiers the    *)
(* first 120 kWh (240 kWh when doubled) of a period are priced at 1.78 and *)
(* the rest at the second tier's rate of the period's season; 250 kWh in   *)
(* one non-summer ODD_MONTH period cost 240 x 1.78 + 10 x 2.26 = 449.80.   *)
(***************************************************************************)
TwoTierCost(total, boundary, rate1, rate2) ==
    IF FLe(total, Fin(boundary))
    THEN FMul(total, Fin(rate1))
    ELSE FAdd(Fin(boundary * rate1), FMul(FSub(total, Fin(boundary)), Fin(rate2)))

C5_TierDoubling ==
    TieredCostsReturned =>
        \A k \in DOMAIN result.costs :
            LET boundary == IF plan.billing_cycle_type = MONTHLY THEN 120 ELSE 240
            IN  /\ PeriodInSeason(k, NON_SUMMER) =>
                      result.costs[k] = TwoTierCost(PeriodTotal(k), boundary, 178, 226)
                /\ PeriodInSeason(k, SUMMER) =>
                      result.costs[k] = TwoTierCost(PeriodTotal(k), boundary, 178, 255)
                /\ (/\ plan.billing_cycle_type = ODD_MONTH
                    /\ PeriodInSeason(k, NON_SUMMER)
                    /\ PeriodTotal(k) = Fin(250))
                   => result.costs[k] = Fin(44980)

\* 250 kWh in one non-summer ODD_MONTH period were priced
C5_Witness ==
    /\ TieredCostsReturned
    /\ plan.billing_cycle_type = ODD_MONTH
    /\ \E k \in DOMAIN result.costs :
          /\ PeriodInSeason(k, NON_SUMMER)
          /\ PeriodTotal(k) = Fin(250)
          /\ result.costs[k] = Fin(44980)

(***************************************************************************)
(* C11: a slot with start < end covers exactly the times t with            *)
(* start <= t < end, a slot with start > end covers exactly                *)
(* [start, 24:00) and [00:00, end): a time covered by exactly one slot of  *)
(* its schedule resolves to that slot's period, a time covered by none to  *)
(* the default.  With off-peak from 00:00 to 09:00 and peak from 09:00 to  *)
(* 24:00, 08:59 and 00:00 resolve to OFF_PEAK, 09:00 and 23:59 to PEAK.    *)
(***************************************************************************)
C11_SlotBoundaries ==
    op \in {"scalar", "batch"} =>
        \A i \in DOMAIN target :
            LET slots == SlotsAt(i)
                t == target[i].time
            IN  /\ (ProperSlots(slots) /\ Cardinality(CoveringSlots(slots, t)) = 1)
                      => context[i].period = FirstCovering(slots, t).period_type
                /\ (ProperSlots(slots) /\ slots # <<>> /\ CoveringSlots(slots, t) = {})
                      => context[i].period = profile.default_period
                /\ slots = TwoPeriodSlots =>
                      /\ t = Time(8, 59) => context[i].period = OFF_PEAK
                      /\ t = Time(9, 0) => context[i].period = PEAK
                      /\ t = Time(23, 59) => context[i].period = PEAK
                      /\ t = Time(0, 0) => context[i].period = OFF_PEAK

\* 08:59 was resolved by the slot scan against one peak slot from 23:00 to
\* 09:00, with off-peak as the default
C11_Witness ==
    /\ op = "scalar"
    /\ profile.default_period = OFF_PEAK
    /\ SlotsAt(1) = <<TimeSlot(Time(23, 0), Time(9, 0), PEAK)>>
    /\ target[1].time = Time(8, 59)
    /\ context[1].period = PEAK

(***************************************************************************)
(* C12: resolution returns exactly one period for every timestamp and      *)
(* never fails; every minute of a (season, day type) pair without a        *)
(* schedule, and every minute that no slot of its schedule covers,         *)
(* resolves to the profile's default period.  A slot with start = end is   *)
(* read here as covering the whole day, so that it leaves no minute        *)
(* uncovered.                                                              *)
(***************************************************************************)
CoversOrFullDay(slot, t) == slot.start = slot.end \/ SlotCovers(slot, t)

C13_BoundaryInLowerTier ==
    TieredCostsReturned =>
        \A k \in DOMAIN result.costs :
            LET B == IF plan.billing_cycle_type = MONTHLY THEN 120 ELSE 240
            IN  /\ PeriodTotal(k) = Fin(B) => result.costs[k] = Fin(B * 178)
                /\ PeriodTotal(k) = Fin(120) =>
                      \A season \in {SUMMER, NON_SUMMER} :
                          _tiered_total_cost(PeriodTotal(k), season,
                                             plan.rates.tiered_rates) = Fin(120 * 178)

\* January and February with 120 kWh each made one EVEN_MONTH period of
\* 240 kWh
C13_Witness ==
    /\ TieredCostsReturned
    /\ plan.billing_cycle_type = EVEN_MONTH
    /\ Len(usage_kwh) = 2
    /\ usage_kwh[1].kwh = Fin(120)
    /\ usage_kwh[2].kwh = Fin(120)
    /\ DOMAIN result.costs = {<<2025, 2>>}
    /\ PeriodTotal(<<2025, 2>>) = Fin(240)
    /\ result.costs[<<2025, 2>>] = Fin(240 * 178)

(***************************************************************************)
(* C14: for a tiered plan the rates of a billing period are those of the   *)
(* season that most of the period's timestamps fall in, counted per        *)
(* timestamp and not by usage: when strictly more of them fall in season S *)
(* than in the other season (counting the rows, and counting the distinct  *)
(* timestamps), the whole period total is priced at S's rates.             *)
(***************************************************************************)
RowsInSeason(k, season) ==
    {i \in DOMAIN target : PeriodKeys[i] = k /\ context[i].season = season}

StampsInSeason(k, season) == {target[i] : i \in RowsInSeason(k, season)}

OtherSeason(season) == IF season = SUMMER THEN NON_SUMMER ELSE SUMMER

C14_SeasonByTimestampCount ==
    TieredCostsReturned =>
        \A k \in DOMAIN result.costs : \A S \in {SUMMER, NON_SUMMER} :
            (/\ Cardinality(RowsInSeason(k, S)) > Cardinality(RowsInSeason(k, OtherSeason(S)))
             /\ Cardinality(StampsInSeason(k, S))
                    > Cardinality(StampsInSeason(k, OtherSeason(S))))
            => result.costs[k] =
                   TwoTierCost(PeriodTotal(k),
                               IF plan.billing_cycle_type = MONTHLY THEN 120 ELSE 240,
                               178,
                               IF S = SUMMER THEN 255 ELSE 226)

(***************************************************************************)
(* C15: get_season is defined for every date and depends only on           *)
(* (month, day): with start <= end it is SUMMER iff                        *)
(* start <= (month, day) <= end, with start > end it is SUMMER iff         *)
(* (month, day) >= start or (month, day) <= end, both ends included; the   *)
(* window (11,1)-(2,28) has 31 December and 1 January inside.              *)
(***************************************************************************)
MonthDayOrd(md) == md[1] * 100 + md[2]

C15_SeasonWindow ==
    op = "get_season" =>
        LET s == MonthDayOrd(profile.summer_start)
            e == MonthDayOrd(profile.summer_end)
            c == MonthDayOrd(<<target[1].month, target[1].day>>)
            inside == IF s <= e THEN s <= c /\ c <= e ELSE c >= s \/ c <= e
        IN  /\ result \in {SUMMER, NON_SUMMER}
            /\ result = SUMMER <=> inside
            /\ \A d \in CalendarDates :
                  (d.month = target[1].month /\ d.day = target[1].day)
                  => get_season(profile.summer_start, profile.summer_end, d) = result
            /\ (/\ profile.summer_start = <<11, 1>>
                /\ profile.summer_end = <<2, 28>>
                /\ <<target[1].month, target[1].day>> \in {<<12, 31>>, <<1, 1>>})
               => result = SUMMER

\* 28 February, the last day of the window (11,1)-(2,28), was classified
C15_Witness ==
    /\ op = "get_season"
    /\ profile.summer_start = <<11, 1>>
    /\ profile.summer_end = <<2, 28>>
    /\ target[1].month = 2
    /\ target[1].day = 28
    /\ result = SUMMER

(***************************************************************************)
(* C16 as stated: the day type is "sunday_or_holiday" when the calendar    *)
(* reports a holiday (also on a Saturday), else "saturday" on a Saturday,  *)
(* else "weekday"; the batched variant gives every date the label of the   *)
(* scalar variant.                                                         *)
(***************************************************************************)
CalendarReportsHoliday(d) == d.weekday = 6 \/ d \in load_holidays(d.year)

C16_DayTypeAsStated ==
    /\ op = "get_day_type" =>
          result = IF CalendarReportsHoliday(target[1]) THEN "sunday_or_holiday"
                   ELSE IF target[1].weekday = 5 THEN "saturday"
                   ELSE "weekday"
    /\ op = "get_day_types_batch" =>
          \A i \in DOMAIN target : result[i] = get_day_type(target[i])

(***************************************************************************)
(* C16 amended: the label of a holiday is "sunday_holiday"; the day type   *)
(* is "sunday_holiday" when the calendar reports a holiday (also on a      *)
(* Saturday), else "saturday" on a Saturday, else "weekday", and the       *)
(* batched variant gives every date the label of the scalar variant.       *)
(***************************************************************************)
C16_DayTypeLabels ==
    /\ op = "get_day_type" =>
          result = IF CalendarReportsHoliday(target[1]) THEN "sunday_holiday"
                   ELSE IF target[1].weekday = 5 THEN "saturday"
                   ELSE "weekday"
    /\ op = "get_day_types_batch" =>
          /\ Len(result) = Len(target)
          /\ \A i \in DOMAIN target : result[i] = get_day_type(target[i])

\* the day type of a holiday that falls on a Saturday was asked
C16_Witness ==
    /\ op = "get_day_type"
    /\ target[1] = D_2025_10_25
    /\ target[1].weekday = 5
    /\ result = "sunday_holiday"

(***************************************************************************)
(* C17: for a TOU plan calculate_costs groups the interval costs by plain  *)
(* calendar month whatever the plan's billing_cycle_type: the result has   *)
(* one row for each calendar month with usage, holding the sum of that     *)
(* month's interval costs, under ODD_MONTH and EVEN_MONTH as under         *)
(* MONTHLY.                                                                *)
(***************************************************************************)
CalendarMonth(ts) == <<ts.date.year, ts.date.month>>

RECURSIVE MonthIntervalCosts(_, _)
MonthIntervalCosts(k, i) ==
    IF i > Len(usage_kwh) THEN <<>>
    ELSE IF CalendarMonth(target[i]) = k
         THEN <<FMul(usage_kwh[i].kwh,
                     Fin(TouPeriodCosts[<<context[i].season, context[i].period>>]))>>
              \o MonthIntervalCosts(k, i + 1)
         ELSE MonthIntervalCosts(k, i + 1)

TouCostsReturned == op = "calculate_costs" /\ ~IsTiered /\ result.raised = "none"

C17_TouGroupsByMonth ==
    TouCostsReturned =>
        /\ DOMAIN result.costs = {CalendarMonth(target[i]) : i \in DOMAIN target}
        /\ \A k \in DOMAIN result.costs :
              result.costs[k] = PdSum(MonthIntervalCosts(k, 1), 1)

\* a TOU plan configured with EVEN_MONTH priced January and February, which
\* one EVEN_MONTH period would hold together, as two rows
C17_Witness ==
    /\ TouCostsReturned
    /\ plan.billing_cycle_type = EVEN_MONTH
    /\ Len(usage_kwh) = 2
    /\ usage_kwh[1].kwh = Fin(200)
    /\ usage_kwh[2].kwh = Fin(300)
    /\ DOMAIN result.costs = {<<2025, 1>>, <<2025, 2>>}
    /\ result.costs[<<2025, 1>>] = Fin(200 * 480)
    /\ result.costs[<<2025, 2>>] = Fin(300 * 480)

(***************************************************************************)
(* C18: get_cost treats enum and string labels as interchangeable: for any *)
(* rate table, whichever form its keys use, the query with enum members    *)
(* and the query with the corresponding strings return the same unit cost. *)
(***************************************************************************)
\* the enum member a label stands for
MemberOf(label) ==
    IF label \in EnumMembers THEN label
    ELSE CHOOSE m \in EnumMembers : EnumValue[m] = label

C18_EnumStringInterchangeable ==
    op = "get_cost" =>
        LET season == MemberOf(target[1])
            period == MemberOf(target[2])
        IN  /\ get_cost(plan.rates, season, period) = result
            /\ get_cost(plan.rates, EnumValue[season], EnumValue[period]) = result

(***************************************************************************)
(* C19: on a tiered plan pricing_context returns rate None and cost None   *)
(* in every row of a query made without a usage amount, for a datetime and *)
(* for an index, and raises InvalidUsageInput, returning no context,       *)
(* whenever a usage amount is given.                                       *)
(***************************************************************************)
C19_TieredPricingContext ==
    (op \in {"pricing_context_scalar", "pricing_context_index"} /\ IsTiered) =>
        IF usage_kwh = <<>>
        THEN /\ result.raised = "none"
             /\ Len(result.context) = Len(target)
             /\ \A i \in DOMAIN target :
                   /\ result.context[i].rate = NoneValue
                   /\ result.context[i].cost = NoneValue
        ELSE /\ result = Raised("InvalidUsageInput")
             /\ context = <<>>

\* a tiered plan was asked for the context of a datetime with 250 kWh
C19_Witness ==
    /\ op = "pricing_context_scalar"
    /\ IsTiered
    /\ Len(usage_kwh) = 1
    /\ usage_kwh[1].kwh = Fin(250)
    /\ result = Raised("InvalidUsageInput")

(***************************************************************************)
(* C20: the result of calculate_costs for a plan and a usage series does   *)
(* not depend on the calls made on the plan before (accepted or rejected,  *)
(* with the same or another series): it is the result that a plan which    *)
(* was never used, and builds its engine for this call, gives for the      *)
(* series.                                                                 *)
(***************************************************************************)
FreshResults(pl, u) ==
    IF _validate_usage_series(u) # "ok"
    THEN {Raised("InvalidUsageInput")}
    ELSE LET ctx == evaluate(profile, _build_lookup_table(profile), IndexOfSeries(u))
         IN  IF pl.rates.tiered_rates # <<>>
             THEN {Returned(_calculate_tiered_costs(pl.rates, pl.billing_cycle_type,
                                                    u, ctx, pick)) :
                      pick \in SeasonPicks(pl.billing_cycle_type, u, ctx)}
             ELSE {Returned(_calculate_tou_costs(pl.rates, u, ctx))}

C20_CostsIndependentOfHistory ==
    op = "calculate_costs" =>
        /\ result \in FreshResults(plan, usage_kwh)
        /\ Cardinality(FreshResults(plan, usage_kwh)) = 1

\* the third call on a TOU plan, whose engine an earlier call had built,
\* priced 200 kWh in January and 300 kWh in July
C20_Witness ==
    /\ op = "calculate_costs"
    /\ calls = 3
    /\ ~IsTiered
    /\ engine.built
    /\ Len(usage_kwh) = 2
    /\ result = Returned((<<2025, 1>> :> Fin(200 * 480)) @@ (<<2025, 7>> :> Fin(300 * 500)))

(***************************************************************************)
(* C21: the caller's usage series is never modified: a call leaves its     *)
(* index and its values as they were, and when the minimum-usage floor     *)
(* raises the billed usage the raised values are in another series than    *)
(* the caller's.                                                           *)
(***************************************************************************)
FloorRaisedUsage ==
    /\ op \in {"calculate_bill", "calculate_bill_breakdown"}
    /\ context.usage_for_billing # usage_kwh

C21_UsageNeverModified == [][usage_kwh' = usage_kwh]_vars

C21_Witness ==
    /\ FloorRaisedUsage
    /\ \E i \in DOMAIN usage_kwh :
        FLt(usage_kwh[i].kwh, context.usage_for_billing[i].kwh)

(***************************************************************************)
(* C22: calculate_bill leaves every field of the caller's BillingInputs,   *)
(* billing_cycle_months included, as it was before the call.               *)
(***************************************************************************)
C22_InputsNeverModified == [][inputs' = inputs]_vars

(***************************************************************************)
(* C24: calculate_bill and calculate_bill_breakdown raise                  *)
(* InvalidUsageInput for a usage series with a negative value, a NaN, an   *)
(* infinite value or an index that is not in ascending order.              *)
(***************************************************************************)
C24_BillRejectsInvalidUsage ==
    (/\ op \in {"calculate_bill", "calculate_bill_breakdown"}
     /\ \/ HasNaN(usage_kwh) \/ HasNegative(usage_kwh)
        \/ HasInfinite(usage_kwh) \/ OutOfOrder(usage_kwh))
    => result.raised = "InvalidUsageInput"

(***************************************************************************)
(* C25: calculate_bill on a tiered plan with a 2-month billing cycle walks *)
(* the tier boundaries as the plan declares them, undoubled, over the      *)
(* total of each billing period: 250 kWh in one non-summer period cost     *)
(* 120 x 1.78 + 130 x 2.26 = 507.40.                                       *)
(***************************************************************************)
\* the tiers of the plan data as declared, whatever the billing cycle
UndoubledTiers(tiers) ==
    [i \in DOMAIN tiers |->
        ConsumptionTier(tiers[i].min,
                        IF tiers[i].max = NoneValue THEN NoLimitKwh ELSE tiers[i].max.v,
                        tiers[i].summer, tiers[i].non_summer)]

BillReturned == op \in {"calculate_bill", "calculate_bill_breakdown"}

AcceptableUsage == _validate_usage_series(usage_kwh) = "ok" /\ ~HasInfinite(usage_kwh)

BimonthlyTieredBill ==
    /\ BillReturned
    /\ AcceptableUsage
    /\ plan.tiers # <<>>
    /\ plan.billing_rules.billing_cycle_months = IntValue(2)

BilledTotal(k) ==
    PdSum(SelectValues(ValuesOfSeries(context.usage_for_billing),
                       context.billing_periods, k, 1), 1)

C25_BillWalksUndoubledTiers ==
    BimonthlyTieredBill =>
        \A k \in DOMAIN result.costs :
            \E season \in {SUMMER, NON_SUMMER} :
                result.costs[k] =
                    _tiered_total_cost(BilledTotal(k), season, UndoubledTiers(plan.tiers))

(***************************************************************************)
(* C26: calculate_bill for a plan with a 2-month cycle groups the usage by *)
(* the fixed pairs of months (12,1), (2,3), (4,5), (6,7), (8,9), (10,11),  *)
(* whichever month the series starts in: two timestamps fall in the same   *)
(* billing period exactly when their months are in the same pair.          *)
(***************************************************************************)
C26_FixedOddMonthPairs ==
    (/\ BillReturned
     /\ AcceptableUsage
     /\ plan.billing_rules.billing_cycle_months = IntValue(2))
    => \A i, j \in DOMAIN target :
          (context.billing_periods[i] = context.billing_periods[j])
          <=> (GroupKey(target[i], ODD_MONTH) = GroupKey(target[j], ODD_MONTH))

(***************************************************************************)
(* C23: in monthly_breakdown with include_shares=True, for every accepted  *)
(* usage series and every month of the result, the usage_share values of   *)
(* the month's rows sum to 1.0 and so do its cost_share values.            *)
(***************************************************************************)
\* the sum of the shares of the rows from n on that belong to the month
RECURSIVE ShareSum(_, _, _, _)
ShareSum(rows, month, column, n) ==
    IF n > Len(rows) THEN Ratio(0, 1)
    ELSE IF rows[n].month # month THEN ShareSum(rows, month, column, n + 1)
    ELSE LET share == rows[n][column]
             rest == ShareSum(rows, month, column, n + 1)
         IN  IF share.k # "ratio" \/ rest.k # "ratio"
             THEN [k |-> "nan", num |-> 0, den |-> 0]
             ELSE IF share.den = rest.den THEN Ratio(share.num + rest.num, share.den)
             ELSE Ratio(share.num * rest.den + rest.num * share.den, share.den * rest.den)

IsOne(share) == share.k = "ratio" /\ share.den # 0 /\ share.num = share.den

C23_SharesSumToOne ==
    (op = "monthly_breakdown" /\ result.raised = "none" /\ result.include_shares)
    => \A n \in DOMAIN result.rows :
          /\ IsOne(ShareSum(result.rows, result.rows[n].month, "usage_share", 1))
          /\ IsOne(ShareSum(result.rows, result.rows[n].month, "cost_share", 1))

(***************************************************************************)
(* C27: when the holiday API cannot be used for a year without a cache     *)
(* file, whatever the failure of the fetch, is_holiday does not raise: the *)
(* loader falls back to the locally computed holidays and is_holiday       *)
(* returns a boolean, with every Sunday a holiday.                         *)
(***************************************************************************)
FetchFailed ==
    /\ op = "is_holiday"
    /\ calendar.fetch.status = "raised"
    /\ calendar.fetch.year = target.year
    /\ target.weekday # 6

C27_FallbackOnAnyFetchFailure ==
    FetchFailed =>
        /\ result.raised = "none"
        /\ calendar.memory[target.year] = "lunar"
        /\ result.value = lunar_holidays(target, calendar.lunar_available)

(***************************************************************************)
(* C30: one holiday fetch ends after at most 3 HTTP attempts.  An HTTP 404 *)
(* and an exception that is none of HTTPError, URLError, TimeoutError and  *)
(* OSError are raised on the attempt where they occur; an HTTP error with  *)
(* another code and an error of those classes are retried after a wait of  *)
(* 1 second and then 2 seconds, never more than 10, with no wait after the *)
(* last attempt, and after the third failure the last error is raised.     *)
(* Once a fetch has ended it makes no further attempt, and every fetch     *)
(* that runs does end.                                                     *)
(***************************************************************************)
FetchRunning == calendar.fetch.status = "running"

FetchEnded == calendar.fetch.status \in {"returned", "raised"}

Retried == {"HTTPError500", "URLError"}

FetchSchedule ==
    LET f == calendar.fetch
    IN  /\ f.attempts <= 3
        /\ Len(f.sleeps) <= 2
        /\ \A i \in DOMAIN f.sleeps : f.sleeps[i] = i /\ f.sleeps[i] <= 10
        /\ FetchRunning => /\ Len(f.sleeps) = f.attempts
                           /\ f.attempts > 0 => f.last_exc \in Retried
        /\ FetchEnded => Len(f.sleeps) = f.attempts - 1
        /\ (FetchEnded /\ f.status = "raised" /\ f.error \in Retried)
           => f.attempts = 3 /\ f.error = f.last_exc

NoAttemptAfterEnd ==
    FetchEnded => \/ calendar'.fetch = calendar.fetch
                  \/ calendar'.fetch = StartFetch(target'.year)

C30_FetchTerminates ==
    /\ []FetchSchedule
    /\ [][NoAttemptAfterEnd]_vars
    /\ (FetchRunning ~> FetchEnded)

C30_Witness ==
    /\ calendar.fetch.status = "raised"
    /\ calendar.fetch.attempts = 3
    /\ calendar.fetch.sleeps = <<1, 2>>

\* the statement with every failure other than an HTTP 404 retried
C30_EveryOtherFailureRetried ==
    /\ FetchSchedule
    /\ (calendar.fetch.status = "raised" /\ calendar.fetch.error # "HTTPError404")
       => calendar.fetch.attempts = 3

(***************************************************************************)
(* C28: when several threads call calculate_costs at once on a plan whose  *)
(* engine is not built yet, every call completes without error with the    *)
(* result of a sequential run, and no call reads its periods from a        *)
(* missing or partly built lookup table, also when more than one thread    *)
(* runs the lazy construction.                                             *)
(***************************************************************************)
SequentialResults == CostResultsWith(profile, ThreadEngine, plan, usage_kwh)

ThreadsSafe ==
    \A t \in ThreadIds :
        /\ threads[t].pc = "return" => engine = ThreadEngine
        /\ threads[t].pc = "done" =>
              /\ threads[t].result.raised = "none"
              /\ threads[t].result \in SequentialResults

AllThreadsDone == \A t \in ThreadIds : threads[t].pc = "done"

C28_ConcurrentCallsAgree == []ThreadsSafe /\ <>AllThreadsDone

\* two threads have each built an engine and both calls have returned
C28_Witness ==
    /\ AllThreadsDone
    /\ \E t1, t2 \in ThreadIds :
        t1 # t2 /\ threads[t1].local.built /\ threads[t2].local.built

(***************************************************************************)
(* C29: for tiers that, sorted by start_kwh, are contiguous from 0 and end *)
(* in an unbounded tier, the tier walk bills the total of a period exactly *)
(* once: the amounts taken per tier sum to the total, no tier takes more   *)
(* than its width (doubled under a two-month cycle), a tier takes usage    *)
(* only when every lower tier is full, and the walk ends with remaining    *)
(* usage 0.  Stated of the walk of calculate_costs on every period total   *)
(* it prices and of the walk of _tiered_total_cost on the same total.      *)
(***************************************************************************)
ContiguousFromZero(tiers) ==
    /\ tiers # <<>>
    /\ tiers[1].start_kwh = 0
    /\ \A i \in 1..(Len(tiers) - 1) :
          tiers[i].end_kwh < NoLimitKwh /\ tiers[i + 1].start_kwh = tiers[i].end_kwh
    /\ tiers[Len(tiers)].end_kwh >= NoLimitKwh

\* the width of tier i with the ends multiplied by mult
TierWidth(tiers, i, mult) ==
    IF tiers[i].end_kwh >= NoLimitKwh THEN PosInf
    ELSE Fin(mult * (tiers[i].end_kwh - tiers[i].start_kwh))

BillsTotalOnce(walk, tiers, total, mult) ==
    /\ PdSum(walk.amounts, 1) = total
    /\ \A i \in DOMAIN walk.amounts : FLe(walk.amounts[i], TierWidth(tiers, i, mult))
    /\ \A i \in DOMAIN walk.amounts :
          FLt(Fin(0), walk.amounts[i]) =>
              \A j \in 1..(i - 1) : walk.amounts[j] = TierWidth(tiers, j, mult)
    /\ walk.remaining_kwh = Fin(0)

WalkedPeriods == {k \in DOMAIN result.costs : PeriodTotal(k) # Fin(0)}

C29_WalkBillsTotalOnce ==
    (/\ TieredCostsReturned
     /\ ContiguousFromZero(SortTiers(plan.rates.tiered_rates, Len(plan.rates.tiered_rates))))
    => \A k \in WalkedPeriods :
          LET sorted_tiers == SortTiers(plan.rates.tiered_rates, Len(plan.rates.tiered_rates))
              mult == tier_multiplier(plan.billing_cycle_type)
          IN  /\ BillsTotalOnce(TierUsage(sorted_tiers, 1, PeriodTotal(k), Fin(0), <<>>, mult),
                                sorted_tiers, PeriodTotal(k), mult)
              /\ BillsTotalOnce(BillingTierUsage(sorted_tiers, 1, PeriodTotal(k), Fin(0), <<>>),
                                sorted_tiers, PeriodTotal(k), 1)

=============================================================================
